---- MODULE Spec2Model ----
(***************************************************************************)
(* fstore: the object store engine (parts, part locks, commit, prune, the  *)
(* metadata store) and the background task machinery (Task, Progress,      *)
(* ProgressGuard, the object-stream worker).                               *)
(*                                                                         *)
(* Two groups of specifications share the module's variables:              *)
(*   Spec      the request handlers of fstored over the filesystem and the *)
(*             metadata store (the task variables stay as initialised);    *)
(*   TaskSpec  check()/archive() and the object-stream worker (the store   *)
(*             variables stay as initialised); TaskFairSpec adds the       *)
(*             fairness of the tokio scheduler.                            *)
(***************************************************************************)
EXTENDS Integers, Sequences, FiniteSets, TLC

\* ------------------------------------------------------------------ bounds
\* Requests the server accepts in one behaviour.
MaxRequests == 3

\* check()/archive() calls in one behaviour.
MaxRuns == 2

\* Object rows in the store when the background tasks start.
MaxObjects == 2

\* num_cpus::get(): the permits of the worker's semaphore.
NumCpus == 1
\* Calls of Progress::error / clear_error on one Progress, and how many of
\* them are clear_error.
MaxCalls == 103
MaxClears == 1
\* The last reading of the clock.
MaxTime == 1
\* Connections made to the listening endpoint.
MaxConns == 2

\* Part / object UUIDs, bucket UUIDs, request tasks, byte values.
Ids == {1, 2}
Buckets == {"b1", "b2"}
Reqs == {1, 2}
Bytes == {"a", "b"}

\* The calls of check()/archive(), and the two Task slots of ObjectStore.tasks.
Runs == 1..MaxRuns
Tasks == {"check", "archive"}

\* progress.rs: the message buffer is handed out once it is longer than this.
MAX_ERRORS == 100

\* fs.rs: the number of prefix directories of a path, and of the parents
\* blocking::remove walks up.
ID_SLICES == 2

\* StatusCode::NOT_FOUND and StatusCode::INTERNAL_SERVER_ERROR.
NOT_FOUND == 404
INTERNAL_SERVER_ERROR == 500

\* OBJECT_PERMISSIONS, 0o640.
OBJECT_PERMISSIONS == 416

\* The mode OpenOptions asks for when it creates a file, 0o666.
DefaultCreateMode == 438

\* The umask of a daemonized server, 0o027.
DaemonUmask == 23

\* The umasks the server may run under: the daemon's, or the one a server
\* in the foreground inherits (0o022, a login shell's).
Umasks == {DaemonUmask, 18}

\* Option values: None, or Some(x) holding x.
None == <<>>
Some(x) == <<x>>
Get(o) == o[1]

VARIABLES
    partFile,       \* parts/<prefix>/<id>: None or Some(content)
    objectFile,     \* objects/<prefix>/<id>: None or Some(content)
    locked_parts,   \* PartLockSet.storage
    buckets,        \* bucket rows of the metadata store
    rows,           \* Object rows: None or Some([hash, size])
    assoc,          \* bucket -> object associations
    req,            \* the request tasks of the HTTP server
    accepted,       \* requests accepted so far
    umask,          \* the file mode creation mask of the server process
    partMode,       \* permission bits of parts/<prefix>/<id>: None or Some(mode)
    objectMode,     \* permission bits of objects/<prefix>/<id>: None or Some(mode)
    objectDir,      \* the prefix directories objects/<id[0:2]>/<id[2:4]> exist
    objectTop,      \* the directory objects/<id[0:2]> exists
    objectsRoot,    \* the directory objects/ exists
    layout,         \* which prefix directories the two ids have in common
    now,            \* the reading of the clock
    date_added,     \* the creation timestamp of each Object row
    archive,        \* ObjectStore.archive is Some(path)
    tasks,          \* Task.progress of each slot: 0 (None) or the run installed
    run,            \* each check()/archive() call, its Progress and its worker
    object_errors,  \* the ObjectError rows of the metadata store: id -> message
    pushers,        \* callers of Progress::error / clear_error, and the buffer's mutex
    waiter,         \* a caller of Progress::finished() on each call's Progress
    archiveFile,    \* <archive>/objects/<prefix>/<id>: None or Some(content)
    archiveDir,     \* the prefix directories of id under <archive>/objects exist
    archiveStray,   \* a file in <archive>/objects whose name is no UUID
    archiveObjects, \* the directory <archive>/objects exists
    uds,            \* the UnixDomainSocket of the endpoint: which of mode, owner, group are set
    sockFile,       \* what is at uds.path: "none", "other" (not ours), "socket"
    sockMeta,       \* owner, group and mode of the socket file: as created, or as configured
    listener,       \* serve_unix: the UnixListener and the position of listen()
    signal,         \* the signal task has got SIGINT/SIGTERM and dropped signal_rx
    backlog,        \* connections that wait to be accepted
    conn            \* the connection tasks listen() spawned

diskVars == <<umask, partMode, objectMode, objectDir, objectTop, objectsRoot, layout>>

clockVars == <<now, date_added>>

serveVars == <<uds, sockFile, sockMeta, listener, signal, backlog, conn>>

storeVars == <<partFile, objectFile, locked_parts, buckets, rows, assoc, req, accepted,
               diskVars, clockVars, serveVars>>

archVars == <<archiveFile, archiveDir, archiveStray, archiveObjects>>

progVars == <<pushers, waiter>>

jobVars == <<archive, tasks, run, object_errors, progVars, archVars>>

taskVars == <<jobVars, serveVars>>

vars == <<partFile, objectFile, locked_parts, buckets, rows, assoc, req, accepted,
          umask, partMode, objectMode, objectDir, objectTop, objectsRoot, layout,
          now, date_added,
          archive, tasks, run, object_errors, pushers, waiter,
          archiveFile, archiveDir, archiveStray, archiveObjects,
          uds, sockFile, sockMeta, listener, signal, backlog, conn>>

\* ------------------------------------------------------------ pure helpers
ByteCode(b) == IF b = "a" THEN 1 ELSE 2

\* Bitwise and of two permission words.
RECURSIVE BitAnd(_, _)
BitAnd(a, b) ==
    IF a = 0 \/ b = 0 THEN 0
    ELSE (a % 2) * (b % 2) + 2 * BitAnd(a \div 2, b \div 2)

\* open(2) with O_CREAT: the mode asked for, less the bits of the umask.
CreateMode(mask) == BitAnd(DefaultCreateMode, 511 - mask)

\* hash::sha256sum as an injective digest of the bytes read.
RECURSIVE sha256sum(_)
sha256sum(data) ==
    IF data = <<>> THEN 1 ELSE 3 * sha256sum(Tail(data)) + ByteCode(Head(data))

\* A request task: the handler (op), its next step (pc), the part or object
\* id, what it holds (tok: PartLock,
\* fd: where the Part's open file is now, lock: the commit's _lock is Ok),
\* the commit's size and hash, prune's transaction (objects, todo), and the
\* response (result, written, data, oid, and the HTTP status).
IdleReq ==
    [op |-> "idle", pc |-> "idle", id |-> 0, written |-> 0,
     tok |-> FALSE, fd |-> "none", lock |-> FALSE, size |-> 0, hash |-> 0,
     objects |-> {}, todo |-> {}, result |-> "none", data |-> <<>>, oid |-> 0,
     status |-> 0]

\* A call of check()/archive(): the task, the position of the call and of
\* its worker (pc), the call's result, and its Progress: total, completed,
\* errors, messages (the buffered ObjectError records), ended; guard: the ProgressGuard is alive;
\* taken: objects taken from the stream; running: per-object tasks that hold
\* a permit, and work: the objects they process; exiting: per-object tasks
\* past increment that still hold their receiver; flushed: records handed
\* to update_object_errors.
IdleRun ==
    [task |-> "none", pc |-> "idle", result |-> "none", total |-> 0,
     guard |-> FALSE, ended |-> FALSE, completed |-> 0, errors |-> 0,
     messages |-> <<>>, taken |-> 0, running |-> 0, work |-> {}, exiting |-> 0,
     flushed |-> 0, started |-> 0, stream |-> None]

StoreInit ==
    /\ partFile = [i \in Ids |-> None]
    /\ objectFile = [i \in Ids |-> None]
    /\ locked_parts = {}
    /\ buckets = Buckets
    /\ rows = [i \in Ids |-> None]
    /\ assoc = {}
    /\ req = [r \in Reqs |-> IdleReq]
    /\ accepted = 0

\* The tasks that call Progress::error or clear_error on one Progress.
Callers == {1, 2}

\* No call of error or clear_error is under way: the mutex of the message
\* buffer is free (0), no call was made (calls, of them clears), each
\* caller is idle, with the record it pushes and the batch it was handed.
IdlePushers ==
    [mutex |-> 0, calls |-> 0, clears |-> 0,
     c |-> [k \in Callers |->
                [pc |-> "idle", rec |-> [object_id |-> 0, message |-> ""],
                 batch |-> <<>>]]]

\* No call was made yet, no ObjectError is stored.
RunsInit ==
    /\ tasks = [t \in Tasks |-> 0]
    /\ run = [p \in Runs |-> IdleRun]
    /\ object_errors = [i \in Ids |-> ""]
    /\ pushers = IdlePushers
    /\ waiter = [p \in Runs |-> "idle"]

\* Nothing was archived yet.
TasksInit ==
    /\ RunsInit
    /\ archiveFile = [i \in Ids |-> None]
    /\ archiveDir = [i \in Ids |-> FALSE]
    /\ archiveStray = FALSE
    /\ archiveObjects = FALSE

\* The connection slots of listen().
Conns == 1..MaxConns

\* The socket file as bind creates it: owned by the process, mode from the
\* umask.
CreatedMeta == [owner |-> "process", group |-> "process", mode |-> "created"]

\* An endpoint that sets neither mode nor owner nor group.
PlainSocket == [mode |-> FALSE, owner |-> "none", group |-> "none"]

\* serve() has not been called.
NotServing ==
    /\ uds = PlainSocket
    /\ sockFile = "none"
    /\ sockMeta = CreatedMeta
    /\ listener = "none"
    /\ signal = FALSE
    /\ backlog = 0
    /\ conn = [c \in Conns |-> "none"]

\* A daemonized server: no file yet, the daemon's umask.
DiskInit ==
    /\ umask = DaemonUmask
    /\ partMode = [i \in Ids |-> None]
    /\ objectMode = [i \in Ids |-> None]
    /\ objectDir = [i \in Ids |-> FALSE]
    /\ objectTop = objectDir
    /\ objectsRoot = (\E i \in Ids : objectDir[i])
    /\ layout = "apart"
    /\ now = 0
    /\ date_added = [i \in Ids |-> 0]

PermInit == DiskInit /\ NotServing

\* The store as constructed, with an archive location configured.
Init == StoreInit /\ TasksInit /\ archive = TRUE /\ PermInit

\* The bytes object i was committed with (one Object row per hash).
Committed(i) == IF i = 1 THEN <<"a">> ELSE <<"b">>

\* What may be at objects/<prefix>/<i> when a background task starts: the
\* committed bytes, or a file tampered with from outside: other content,
\* truncated, deleted.
FileStates(i) ==
    {Some(Committed(i)), Some(Append(Committed(i), "a")), Some(<<>>), None}

\* The store when the background tasks start: with or without an archive
\* location, no request in progress, up to MaxObjects committed objects in
\* bucket b1, whose files may have been tampered with.
InitAny ==
    /\ TasksInit
    /\ archive \in BOOLEAN
    /\ partFile = [i \in Ids |-> None]
    /\ locked_parts = {}
    /\ buckets = Buckets
    /\ req = [r \in Reqs |-> IdleReq]
    /\ accepted = 0
    /\ \E present \in SUBSET Ids :
        /\ Cardinality(present) <= MaxObjects
        /\ rows = [i \in Ids |->
                    IF i \in present
                    THEN Some([hash |-> sha256sum(Committed(i)), size |-> Len(Committed(i))])
                    ELSE None]
        /\ assoc = {<<"b1", i>> : i \in present}
        /\ objectFile \in [Ids -> UNION {FileStates(i) : i \in Ids}]
        /\ \A i \in Ids :
            objectFile[i] \in (IF i \in present THEN FileStates(i) ELSE {None})
    /\ umask = DaemonUmask
    /\ partMode = [i \in Ids |-> None]
    /\ objectMode = [i \in Ids |->
                        IF objectFile[i] # None THEN Some(CreateMode(umask)) ELSE None]
    /\ objectDir = [i \in Ids |-> rows[i] # None]
    /\ objectTop = objectDir
    /\ objectsRoot = (\E i \in Ids : objectDir[i])
    /\ layout = "apart"
    /\ now = 0
    /\ date_added = [i \in Ids |-> 0]
    /\ NotServing

\* --------------------------------------------------------- part lock set
\* A lock that grants every request (the insert's result ignored).
LockGrantedAlways(storage, id) == TRUE

\* HashSet::insert of PartLockSet::lock: true exactly when the id was absent.
LockGranted(storage, id) == id \notin storage

\* A drop that leaves the id in the set.
PartLockKeep(storage, id) == storage

\* A drop that empties the set.
PartLockDropAll(storage, id) == {}

\* Drop for PartLock: the id leaves the set.
PartLockDrop(storage, id) == storage \ {id}

\* flock(LOCK_EX | LOCK_NB) on a new open file description of parts/<id>: it
\* would block while another description of the same file holds the lock.
FlockHeld(id) == \E r \in Reqs : req[r].id = id /\ req[r].fd = "part"

\* IntoResponse for Error: a missing row (Sql(RowNotFound)) and NotFound
\* are answered 404; every other fstore_core::Error is logged and answered
\* 500 "Something went wrong".
into_response(error) ==
    IF error \in {"RowNotFound", "NotFound"} THEN NOT_FOUND
    ELSE INTERNAL_SERVER_ERROR

\* The status of a handler's answer: 200 for Ok, else what into_response
\* makes of the error.
Status(result) == IF result = "ok" THEN 200 ELSE into_response(result)

\* A handler returns: its Part (FileLock, file, PartLock token) and the
\* commit's token are dropped with it; the result becomes the response.
Done(rec, result) ==
    [rec EXCEPT !.pc = "done", !.result = result, !.status = Status(result),
                !.tok = FALSE, !.fd = "none", !.lock = FALSE, !.todo = {}]

\* A return that leaves the set as it is.
ReleasedNothing(storage, rec) == storage

\* The tokens a returning handler holds are dropped.
Released(storage, rec) ==
    IF rec.tok \/ rec.lock THEN PartLockDrop(storage, rec.id) ELSE storage

\* Uuid::new_v4: an id nothing in the store uses (the lowest one: unused
\* ids are interchangeable).
Unused(id) ==
    /\ partFile[id] = None /\ objectFile[id] = None /\ rows[id] = None
    /\ id \notin locked_parts
    /\ \A r \in Reqs : req[r].id # id

Fresh(id) == Unused(id) /\ \A j \in Ids : j < id => ~Unused(j)

\* Open file descriptions follow their file: rename(parts/id, objects/id)
\* moves the part's inode and unlinks the object it replaces.
AfterRename(rq, id) ==
    [r \in Reqs |->
        IF rq[r].id = id /\ rq[r].fd = "part" THEN [rq[r] EXCEPT !.fd = "object"]
        ELSE IF rq[r].id = id /\ rq[r].fd = "object" THEN [rq[r] EXCEPT !.fd = "gone"]
        ELSE rq[r]]

AfterUnlink(rq, id) ==
    [r \in Reqs |->
        IF rq[r].id = id /\ rq[r].fd = "object" THEN [rq[r] EXCEPT !.fd = "gone"]
        ELSE rq[r]]

\* ------------------------------------------------------- metadata store
HashOwner(h) == {y \in Ids : rows[y] # None /\ Get(rows[y]).hash = h}

Orphans == {y \in Ids : rows[y] # None /\ \A b \in Buckets : <<b, y>> \notin assoc}

\* An add_object that inserts a row under object_id whatever rows exist.
AddObjectAlwaysInserts(b, id, h, sz) ==
    IF b \notin buckets \/ rows[id] # None
    THEN [ok |-> FALSE, oid |-> 0, rows |-> rows, assoc |-> assoc]
    ELSE [ok |-> TRUE, oid |-> id,
          rows |-> [rows EXCEPT ![id] = Some([hash |-> h, size |-> sz])],
          assoc |-> assoc \cup {<<b, id>>}]

\* add_object: the bucket must exist; a known hash returns the existing row
\* and adds the association; a new hash inserts the row under object_id.
AddObject(b, id, h, sz) ==
    IF b \notin buckets THEN [ok |-> FALSE, oid |-> 0, rows |-> rows, assoc |-> assoc]
    ELSE IF HashOwner(h) # {} THEN
        LET y == CHOOSE y \in HashOwner(h) : TRUE IN
        [ok |-> TRUE, oid |-> y, rows |-> rows, assoc |-> assoc \cup {<<b, y>>}]
    ELSE IF rows[id] # None THEN
        [ok |-> FALSE, oid |-> 0, rows |-> rows, assoc |-> assoc]
    ELSE [ok |-> TRUE, oid |-> id,
          rows |-> [rows EXCEPT ![id] = Some([hash |-> h, size |-> sz])],
          assoc |-> assoc \cup {<<b, id>>}]

\* The rows deleted by a prune transaction that is still open.
TxObjects == UNION {req[r].objects : r \in {q \in Reqs : req[q].pc = "unlink"}}

\* A statement that touches a row deleted by an open transaction waits for
\* that transaction to end.
TxBlocks(id, h) == id \in TxObjects \/ HashOwner(h) \cap TxObjects # {}

\* ------------------------------------------------------ request handlers
\* The server accepts a request on a free task (the lowest free one: tasks
\* are interchangeable).
Accept(r) ==
    /\ req[r].pc = "idle"
    /\ \A q \in Reqs : q < r => req[q].pc # "idle"
    /\ accepted < MaxRequests
    /\ accepted' = accepted + 1

\* POST /object: new_part.
StartNewPart(r) ==
    /\ Accept(r)
    /\ \E id \in Ids :
        /\ Fresh(id)
        /\ req' = [req EXCEPT ![r] = [IdleReq EXCEPT !.op = "new_part", !.pc = "lock",
                                                     !.id = id]]
    /\ UNCHANGED <<partFile, objectFile, locked_parts, buckets, rows, assoc>>
    /\ UNCHANGED taskVars
    /\ UNCHANGED diskVars
    /\ UNCHANGED clockVars

\* POST /object/:id: append_part.
StartAppendPart(r, id) ==
    /\ Accept(r)
    /\ req' = [req EXCEPT ![r] = [IdleReq EXCEPT !.op = "append_part", !.pc = "lock",
                                                 !.id = id]]
    /\ UNCHANGED <<partFile, objectFile, locked_parts, buckets, rows, assoc>>
    /\ UNCHANGED taskVars
    /\ UNCHANGED diskVars
    /\ UNCHANGED clockVars

\* POST /bucket/:id: add_object (the bucket id is first used by the
\* metadata insert).
StartAddObject(r) ==
    /\ Accept(r)
    /\ \E id \in Ids :
        /\ Fresh(id)
        /\ req' = [req EXCEPT ![r] = [IdleReq EXCEPT !.op = "add_object", !.pc = "lock",
                                                     !.id = id]]
    /\ UNCHANGED <<partFile, objectFile, locked_parts, buckets, rows, assoc>>
    /\ UNCHANGED taskVars
    /\ UNCHANGED diskVars
    /\ UNCHANGED clockVars

\* PUT /object/:bucket/:id: commit_part. get_bucket answers NotFound for an
\* unknown bucket; a Content-Length header makes the handler append the
\* body before it commits.
StartCommitPart(r, found, id, hasBody) ==
    /\ Accept(r)
    /\ found \/ buckets # Buckets
    /\ req' = [req EXCEPT ![r] =
                IF ~found
                THEN Done([IdleReq EXCEPT !.op = "commit_part", !.id = id], "NotFound")
                ELSE [IdleReq EXCEPT !.op = "commit_part", !.id = id,
                                     !.pc = IF hasBody THEN "lock" ELSE "commit"]]
    /\ UNCHANGED <<partFile, objectFile, locked_parts, buckets, rows, assoc>>
    /\ UNCHANGED taskVars
    /\ UNCHANGED diskVars
    /\ UNCHANGED clockVars

\* Part::open up to its first await: PartLockSet::lock.
PartLock(r) ==
    /\ req[r].pc = "lock"
    /\ IF LockGranted(locked_parts, req[r].id)
       THEN /\ locked_parts' = locked_parts \cup {req[r].id}
            /\ req' = [req EXCEPT ![r].pc = "open", ![r].tok = TRUE]
       ELSE /\ req' = [req EXCEPT ![r] = Done(req[r], "WriteLock")]
            /\ UNCHANGED locked_parts
    /\ UNCHANGED <<partFile, objectFile, buckets, rows, assoc, accepted>>
    /\ UNCHANGED taskVars
    /\ UNCHANGED diskVars
    /\ UNCHANGED clockVars

\* The mode of the file after the open: a file the open creates gets the
\* default mode less the umask, an existing file keeps its mode.
ModeAfterOpen(mode) == IF mode = None THEN Some(CreateMode(umask)) ELSE mode

\* An open that truncates the file.
OpenTruncate(file) == Some(<<>>)

\* File::options().create(true).append(true).open: a missing file is
\* created empty, an existing one keeps its content.
OpenAppend(file) == IF file = None THEN Some(<<>>) ELSE file

\* Part::open after the await: create-if-absent in append mode, then the OS
\* lock. io: "ok", "open" (directories or open failed: Internal), "flock"
\* (the lock is held by another process: WriteLock).
PartOpenFile(r, io) ==
    /\ req[r].pc = "open"
    /\ LET id == req[r].id
           created == OpenAppend(partFile[id])
       IN IF io = "open"
          THEN /\ req' = [req EXCEPT ![r] = Done(req[r], "Internal")]
               /\ locked_parts' = Released(locked_parts, req[r])
               /\ UNCHANGED <<partFile, partMode>>
          ELSE IF io = "flock" \/ FlockHeld(id)
          THEN /\ req' = [req EXCEPT ![r] = Done(req[r], "WriteLock")]
               /\ locked_parts' = Released(locked_parts, req[r])
               /\ partFile' = [partFile EXCEPT ![id] = created]
               /\ partMode' = [partMode EXCEPT ![id] = ModeAfterOpen(partMode[id])]
          ELSE /\ req' = [req EXCEPT ![r].pc = "write", ![r].fd = "part"]
               /\ partFile' = [partFile EXCEPT ![id] = created]
               /\ partMode' = [partMode EXCEPT ![id] = ModeAfterOpen(partMode[id])]
               /\ UNCHANGED locked_parts
    /\ UNCHANGED <<objectFile, objectMode, objectDir, objectTop, objectsRoot,
                   buckets, rows, assoc, accepted>>
    /\ UNCHANGED taskVars
    /\ UNCHANGED <<umask, layout>>
    /\ UNCHANGED clockVars

\* stream_to_file's copy of the body (empty, or the one chunk b): the chunk
\* is appended to the open file, wherever its name is now. A failed write
\* ends the handler with Internal.
PartWrite(r, b, ok) ==
    /\ req[r].pc = "write"
    /\ req[r].written = 0
    /\ LET id == req[r].id
       IN IF ~ok
          THEN /\ req' = [req EXCEPT ![r] = Done(req[r], "Internal")]
               /\ locked_parts' = Released(locked_parts, req[r])
               /\ UNCHANGED <<partFile, objectFile>>
          ELSE /\ req' = [req EXCEPT ![r].written = req[r].written + 1]
               /\ partFile' = IF req[r].fd = "part"
                              THEN [partFile EXCEPT ![id] = Some(Append(Get(partFile[id]), b))]
                              ELSE partFile
               /\ objectFile' = IF req[r].fd = "object"
                                THEN [objectFile EXCEPT ![id] = Some(Append(Get(objectFile[id]), b))]
                                ELSE objectFile
               /\ UNCHANGED locked_parts
    /\ UNCHANGED <<buckets, rows, assoc, accepted>>
    /\ UNCHANGED taskVars
    /\ UNCHANGED diskVars
    /\ UNCHANGED clockVars

\* The body ended and stream_to_file returned Ok(bytes): new_part and append_part answer and
\* drop the Part; commit_part drops it at the end of its if-block; add_object
\* keeps it while it commits.
StreamDone(r) ==
    /\ req[r].pc = "write"
    /\ IF req[r].op \in {"new_part", "append_part"}
       THEN /\ req' = [req EXCEPT ![r] = Done(req[r], "ok")]
            /\ locked_parts' = Released(locked_parts, req[r])
       ELSE IF req[r].op = "commit_part"
       THEN /\ req' = [req EXCEPT ![r].pc = "commit", ![r].tok = FALSE, ![r].fd = "none"]
            /\ locked_parts' = Released(locked_parts, req[r])
       ELSE /\ req' = [req EXCEPT ![r].pc = "commit"]
            /\ UNCHANGED locked_parts
    /\ UNCHANGED <<partFile, objectFile, buckets, rows, assoc, accepted>>
    /\ UNCHANGED taskVars
    /\ UNCHANGED diskVars
    /\ UNCHANGED clockVars

\* The mode of the object file when Filesystem::commit is through with
\* it: rename keeps the mode of the part file, and
\* metadata.permissions().set_mode(OBJECT_PERMISSIONS) sets the bits in the
\* Permissions value that permissions() returned; nothing writes that value
\* to the file.
CommittedMode(mode) == mode

\* The directories of the objects tree as they are.
ObjectTree == [dir |-> objectDir, top |-> objectTop, root |-> objectsRoot]

\* path_for_id: the ids i and j have objects/<xx>/<yy> in common, or
\* objects/<xx>.
SameDir(i, j) == i = j \/ layout = "xxyy"
SameTop(i, j) == i = j \/ layout \in {"xx", "xxyy"}

\* create_directories(objects/<xx>/<yy>/<id>): create_dir_all of the
\* parent.
CreateDirectories(tree, id) ==
    [dir |-> [j \in Ids |-> tree.dir[j] \/ SameDir(id, j)],
     top |-> [j \in Ids |-> tree.top[j] \/ SameTop(id, j)],
     root |-> TRUE]

\* Filesystem::commit up to its first await: `let _lock = lock(part_id)`
\* (the Result is bound, never tested, so move_part runs whether or not the
\* token was granted), move_part (create_directories for the object, then
\* rename), metadata().len(), permissions().set_mode().
CommitRename(r) ==
    /\ req[r].pc = "commit"
    /\ LET id == req[r].id
           granted == LockGranted(locked_parts, id)
       IN IF partFile[id] = None
          THEN /\ req' = [req EXCEPT ![r] = Done(req[r], "Internal")]
               /\ locked_parts' = Released(locked_parts, req[r])
               /\ UNCHANGED <<partFile, objectFile, partMode, objectMode>>
          ELSE /\ objectFile' = [objectFile EXCEPT ![id] = partFile[id]]
               /\ partFile' = [partFile EXCEPT ![id] = None]
               /\ objectMode' = [objectMode EXCEPT ![id] = CommittedMode(partMode[id])]
               /\ partMode' = [partMode EXCEPT ![id] = None]
               /\ locked_parts' = IF granted THEN locked_parts \cup {id} ELSE locked_parts
               /\ req' = [AfterRename(req, id) EXCEPT
                            ![r].pc = "hash", ![r].lock = granted,
                            ![r].size = Len(Get(partFile[id])),
                            ![r].fd = IF req[r].fd = "part" THEN "object" ELSE req[r].fd]
    /\ LET tree == CreateDirectories(ObjectTree, req[r].id)
       IN /\ objectDir' = tree.dir
          /\ objectTop' = tree.top
          /\ objectsRoot' = tree.root
    /\ UNCHANGED <<buckets, rows, assoc, accepted>>
    /\ UNCHANGED taskVars
    /\ UNCHANGED <<umask, layout>>
    /\ UNCHANGED clockVars

\* hash::sha256sum(&object) on the blocking pool; Filesystem::commit then
\* returns and its _lock goes out of scope.
CommitHash(r) ==
    /\ req[r].pc = "hash"
    /\ LET id == req[r].id
       IN IF objectFile[id] = None
          THEN /\ req' = [req EXCEPT ![r] = Done(req[r], "Internal")]
               /\ locked_parts' = Released(locked_parts, req[r])
          ELSE /\ req' = [req EXCEPT ![r].pc = "add", ![r].lock = FALSE,
                                     ![r].hash = sha256sum(Get(objectFile[id]))]
               /\ locked_parts' = IF req[r].lock THEN PartLockDrop(locked_parts, id)
                                  ELSE locked_parts
    /\ UNCHANGED <<partFile, objectFile, buckets, rows, assoc, accepted>>
    /\ UNCHANGED taskVars
    /\ UNCHANGED diskVars
    /\ UNCHANGED clockVars

\* The creation timestamp of a row inserted while the clock reads t.
Timestamp(t) == t

\* ObjectStore::commit_part: database.add_object into bucket b, then the
\* handler answers (add_object drops its Part here). dbOk = FALSE: the
\* statement fails.
CommitAddObject(r, b, dbOk) ==
    /\ req[r].pc = "add"
    /\ ~TxBlocks(req[r].id, req[r].hash)
    /\ LET res == AddObject(b, req[r].id, req[r].hash, req[r].size)
       IN IF dbOk /\ res.ok
          THEN /\ rows' = res.rows
               /\ assoc' = res.assoc
               /\ req' = [req EXCEPT ![r] =
                            [Done(req[r], "ok") EXCEPT
                                !.oid = res.oid, !.hash = Get(res.rows[res.oid]).hash,
                                !.size = Get(res.rows[res.oid]).size]]
          ELSE /\ req' = [req EXCEPT ![r] = Done(req[r], "Sql")]
               /\ UNCHANGED <<rows, assoc>>
    /\ date_added' = [i \in Ids |-> IF rows[i] = None /\ rows'[i] # None
                                     THEN Timestamp(now) ELSE date_added[i]]
    /\ locked_parts' = Released(locked_parts, req[r])
    /\ UNCHANGED <<partFile, objectFile, buckets, accepted>>
    /\ UNCHANGED taskVars
    /\ UNCHANGED diskVars
    /\ UNCHANGED now

\* GET /object/:bucket/:id/data: get_object_metadata, or 404.
StartGetObjectData(r, b, id) ==
    /\ Accept(r)
    /\ req' = [req EXCEPT ![r] =
                IF <<b, id>> \in assoc /\ rows[id] # None
                THEN [IdleReq EXCEPT !.op = "get_object_data", !.pc = "file", !.id = id,
                                     !.hash = Get(rows[id]).hash,
                                     !.size = Get(rows[id]).size]
                ELSE Done([IdleReq EXCEPT !.op = "get_object_data", !.id = id], "NotFound")]
    /\ UNCHANGED <<partFile, objectFile, locked_parts, buckets, rows, assoc>>
    /\ UNCHANGED taskVars
    /\ UNCHANGED diskVars
    /\ UNCHANGED clockVars

\* get_object opens objects/<id> (Internal when missing); the body is the
\* file as read.
GetObjectFile(r) ==
    /\ req[r].pc = "file"
    /\ req' = [req EXCEPT ![r] =
                IF objectFile[req[r].id] = None
                THEN Done(req[r], "Internal")
                ELSE [Done(req[r], "ok") EXCEPT !.data = Get(objectFile[req[r].id])]]
    /\ UNCHANGED <<partFile, objectFile, locked_parts, buckets, rows, assoc, accepted>>
    /\ UNCHANGED taskVars
    /\ UNCHANGED diskVars
    /\ UNCHANGED clockVars

\* DELETE /object/:bucket/:id and DELETE /bucket/:id/objects: the
\* associations go, nothing else.
RemoveObjects(b, ids) ==
    /\ accepted < MaxRequests
    /\ accepted' = accepted + 1
    /\ \E i \in ids : <<b, i>> \in assoc
    /\ assoc' = assoc \ {<<b, i>> : i \in ids}
    /\ UNCHANGED <<partFile, objectFile, locked_parts, buckets, rows, req>>
    /\ UNCHANGED taskVars
    /\ UNCHANGED diskVars
    /\ UNCHANGED clockVars

\* A bucket removal that also takes the bucket's objects out of every other
\* bucket.
RemoveBucketCascade(b) ==
    /\ accepted < MaxRequests
    /\ accepted' = accepted + 1
    /\ b \in buckets
    /\ buckets' = buckets \ {b}
    /\ assoc' = {a \in assoc : <<b, a[2]>> \notin assoc}
    /\ UNCHANGED <<partFile, objectFile, locked_parts, rows, req>>
    /\ UNCHANGED taskVars
    /\ UNCHANGED diskVars
    /\ UNCHANGED clockVars

\* DELETE /bucket/:id.
RemoveBucket(b) ==
    /\ accepted < MaxRequests
    /\ accepted' = accepted + 1
    /\ b \in buckets
    /\ buckets' = buckets \ {b}
    /\ assoc' = {a \in assoc : a[1] # b}
    /\ UNCHANGED <<partFile, objectFile, locked_parts, rows, req>>
    /\ UNCHANGED taskVars
    /\ UNCHANGED diskVars
    /\ UNCHANGED clockVars

\* DELETE /objects: prune. database.begin() and tx.remove_orphan_objects();
\* the DELETE waits while another transaction holds the rows.
PruneBegin(r) ==
    /\ Accept(r)
    /\ TxObjects = {}
    /\ req' = [req EXCEPT ![r] = [IdleReq EXCEPT !.op = "prune", !.pc = "unlink",
                                                 !.objects = Orphans, !.todo = Orphans]]
    /\ UNCHANGED <<partFile, objectFile, locked_parts, buckets, rows, assoc>>
    /\ UNCHANGED taskVars
    /\ UNCHANGED diskVars
    /\ UNCHANGED clockVars

\* A remove that finds the directories of every path in place.
DirReadableAlways(id) == TRUE

\* dir.read_dir() of blocking::remove on the parent of objects/<prefix>/<id>:
\* Ok when the directory exists.
DirReadable(id) == objectDir[id]

\* A walk that takes every directory for empty.
DirEmptyAlways(tree, files, id, level) == TRUE

\* dir.read_dir().next().is_some() of blocking::remove, for the level-th
\* parent of objects/<xx>/<yy>/<id>: <yy> is empty when it holds no file,
\* <xx> when it holds no directory, objects/ when it holds none either.
DirEmpty(tree, files, id, level) ==
    IF level = 1 THEN \A j \in Ids : SameDir(id, j) => files[j] = None
    ELSE IF level = 2 THEN \A j \in Ids : SameTop(id, j) => ~tree.dir[j]
    ELSE \A j \in Ids : ~tree.top[j]

\* fs::remove_dir of the level-th parent.
RemoveDir(tree, id, level) ==
    IF level = 1
    THEN [tree EXCEPT !.dir = [j \in Ids |-> tree.dir[j] /\ ~SameDir(id, j)]]
    ELSE IF level = 2
    THEN [tree EXCEPT !.top = [j \in Ids |-> tree.top[j] /\ ~SameTop(id, j)]]
    ELSE [tree EXCEPT !.root = FALSE]

\* The loop of blocking::remove: n more parents, from the level-th on; it
\* breaks at the first one that is not empty.
RECURSIVE RemoveParents(_, _, _, _, _)
RemoveParents(tree, files, id, level, n) ==
    IF n = 0 \/ ~DirEmpty(tree, files, id, level) THEN tree
    ELSE RemoveParents(RemoveDir(tree, id, level), files, id, level + 1, n - 1)

\* rm::blocking::remove of one path of the batch: unlink, NotFound ignored;
\* another error (ok = FALSE) is returned as Internal. Then up to ID_SLICES
\* parents: read_dir().unwrap() panics on a directory that is not there, and
\* remove_files answers Internal for the failed background task; a
\* directory left empty is removed. remove_files' error is returned by
\* prune's `?` before tx.commit(): the transaction is dropped uncommitted.
PruneUnlink(r, id, ok) ==
    /\ req[r].pc = "unlink"
    /\ id \in req[r].todo
    /\ ok \/ objectFile[id] # None
    /\ IF ~ok
       THEN /\ req' = [req EXCEPT ![r] = Done(req[r], "Internal")]
            /\ UNCHANGED <<objectFile, objectMode, objectDir, objectTop, objectsRoot>>
       ELSE /\ objectFile' = [objectFile EXCEPT ![id] = None]
            /\ objectMode' = [objectMode EXCEPT ![id] = None]
            /\ IF DirReadable(id)
               THEN /\ LET tree == RemoveParents(ObjectTree, objectFile', id, 1, ID_SLICES)
                       IN /\ objectDir' = tree.dir
                          /\ objectTop' = tree.top
                          /\ objectsRoot' = tree.root
                    /\ req' = [AfterUnlink(req, id) EXCEPT ![r].todo = req[r].todo \ {id}]
               ELSE /\ req' = [AfterUnlink(req, id) EXCEPT ![r] = Done(req[r], "Internal")]
                    /\ UNCHANGED <<objectDir, objectTop, objectsRoot>>
    /\ UNCHANGED <<partFile, partMode, locked_parts, buckets, rows, assoc, accepted>>
    /\ UNCHANGED taskVars
    /\ UNCHANGED <<umask, layout>>
    /\ UNCHANGED clockVars

\* remove_files returned Ok: tx.commit(): the orphan rows go.
PruneCommit(r, ok) ==
    /\ req[r].pc = "unlink"
    /\ req[r].todo = {}
    /\ IF ok
       THEN /\ rows' = [i \in Ids |-> IF i \in req[r].objects THEN None ELSE rows[i]]
            /\ req' = [req EXCEPT ![r] = Done(req[r], "ok")]
       ELSE /\ req' = [req EXCEPT ![r] = Done(req[r], "Sql")]
            /\ UNCHANGED rows
    /\ UNCHANGED <<partFile, objectFile, locked_parts, buckets, assoc, accepted>>
    /\ UNCHANGED taskVars
    /\ UNCHANGED diskVars
    /\ UNCHANGED clockVars

\* The response is sent; the task ends.
Respond(r) ==
    /\ req[r].pc = "done"
    /\ req' = [req EXCEPT ![r] = IdleReq]
    /\ UNCHANGED <<partFile, objectFile, locked_parts, buckets, rows, assoc, accepted>>
    /\ UNCHANGED taskVars
    /\ UNCHANGED diskVars
    /\ UNCHANGED clockVars

Next ==
    \/ \E r \in Reqs : StartNewPart(r)
    \/ \E r \in Reqs, id \in Ids : StartAppendPart(r, id)
    \/ \E r \in Reqs : StartAddObject(r)
    \/ \E r \in Reqs, found \in BOOLEAN, id \in Ids, hasBody \in BOOLEAN :
            StartCommitPart(r, found, id, hasBody)
    \/ \E r \in Reqs : PartLock(r)
    \/ \E r \in Reqs, io \in {"ok", "open", "flock"} : PartOpenFile(r, io)
    \/ \E r \in Reqs, b \in Bytes, ok \in BOOLEAN : PartWrite(r, b, ok)
    \/ \E r \in Reqs : StreamDone(r)
    \/ \E r \in Reqs : CommitRename(r)
    \/ \E r \in Reqs : CommitHash(r)
    \/ \E r \in Reqs, b \in Buckets, dbOk \in BOOLEAN : CommitAddObject(r, b, dbOk)
    \/ \E r \in Reqs, b \in Buckets, id \in Ids : StartGetObjectData(r, b, id)
    \/ \E r \in Reqs : GetObjectFile(r)
    \/ \E b \in Buckets, ids \in SUBSET Ids : RemoveObjects(b, ids)
    \/ \E b \in Buckets : RemoveBucket(b)
    \/ \E r \in Reqs : PruneBegin(r)
    \/ \E r \in Reqs, id \in Ids, ok \in BOOLEAN : PruneUnlink(r, id, ok)
    \/ \E r \in Reqs, ok \in BOOLEAN : PruneCommit(r, ok)
    \/ \E r \in Reqs : Respond(r)

Spec == Init /\ [][Next]_vars

\* The store after object 1 was uploaded into bucket b1 and, possibly,
\* removed from it again: its row and its file are there, no request is
\* in progress.
StoredInit ==
    /\ TasksInit
    /\ archive = TRUE
    /\ partFile = [i \in Ids |-> None]
    /\ objectFile = [i \in Ids |-> IF i = 1 THEN Some(Committed(1)) ELSE None]
    /\ locked_parts = {}
    /\ buckets = Buckets
    /\ rows = [i \in Ids |->
                IF i = 1
                THEN Some([hash |-> sha256sum(Committed(1)), size |-> Len(Committed(1))])
                ELSE None]
    /\ assoc \in {{}, {<<"b1", 1>>}}
    /\ req = [r \in Reqs |-> IdleReq]
    /\ accepted = 0
    /\ umask = DaemonUmask
    /\ partMode = [i \in Ids |-> None]
    /\ objectMode = [i \in Ids |-> IF i = 1 THEN Some(CreateMode(umask)) ELSE None]
    /\ objectDir = [i \in Ids |-> i = 1]
    /\ objectTop = objectDir
    /\ objectsRoot = (\E i \in Ids : objectDir[i])
    /\ layout = "apart"
    /\ now = 0
    /\ date_added = [i \in Ids |-> 0]
    /\ NotServing

StoredSpec == StoredInit /\ [][Next]_vars

\* The ways two ids can lie in the objects tree: prefix directories of
\* their own, <xx> in common, or <xx>/<yy> in common.
Layouts == {"apart", "xx", "xxyy"}

\* The store with object 1 committed and orphaned, for every way id 2 can
\* lie beside it.
PrefixInit ==
    /\ TasksInit
    /\ archive = TRUE
    /\ partFile = [i \in Ids |-> None]
    /\ objectFile = [i \in Ids |-> IF i = 1 THEN Some(Committed(1)) ELSE None]
    /\ locked_parts = {}
    /\ buckets = Buckets
    /\ rows = [i \in Ids |->
                IF i = 1
                THEN Some([hash |-> sha256sum(Committed(1)), size |-> Len(Committed(1))])
                ELSE None]
    /\ assoc = {}
    /\ req = [r \in Reqs |-> IdleReq]
    /\ accepted = 0
    /\ umask = DaemonUmask
    /\ partMode = [i \in Ids |-> None]
    /\ objectMode = [i \in Ids |-> IF i = 1 THEN Some(CreateMode(umask)) ELSE None]
    /\ layout \in Layouts
    /\ now = 0
    /\ date_added = [i \in Ids |-> 0]
    /\ NotServing
    /\ objectDir = [i \in Ids |-> SameDir(1, i)]
    /\ objectTop = [i \in Ids |-> SameTop(1, i)]
    /\ objectsRoot = TRUE

PrefixSpec == PrefixInit /\ [][Next]_vars

\* The store as constructed by a server that runs as a daemon or in the
\* foreground.
ModeInit ==
    /\ StoreInit /\ TasksInit /\ archive = TRUE
    /\ umask \in Umasks
    /\ partMode = [i \in Ids |-> None]
    /\ objectMode = [i \in Ids |-> None]
    /\ objectDir = [i \in Ids |-> FALSE]
    /\ objectTop = objectDir
    /\ objectsRoot = (\E i \in Ids : objectDir[i])
    /\ layout = "apart"
    /\ now = 0
    /\ date_added = [i \in Ids |-> 0]
    /\ NotServing

ModeSpec == ModeInit /\ [][Next]_vars

\* ------------------------------------------------------------- Task slots
\* A start that installs the progress whatever the slot holds.
TaskStartOverwrite(slots, t, p) == [ok |-> TRUE, slots |-> [slots EXCEPT ![t] = p]]

\* Task::start: InProgress when a progress is installed, else install it.
TaskStart(slots, t, p) ==
    IF slots[t] # 0 THEN [ok |-> FALSE, slots |-> slots]
    ELSE [ok |-> TRUE, slots |-> [slots EXCEPT ![t] = p]]

\* A clear that leaves the slot as it is.
TaskClearNothing(slots, t) == slots

\* Task::clear: the slot becomes None.
TaskClear(slots, t) == [slots EXCEPT ![t] = 0]

\* Progress::finish, as called by Drop for ProgressGuard: ended is set.
Finish(rec) == [rec EXCEPT !.guard = FALSE, !.ended = TRUE]

\* A push_error that drops the record.
PushErrorDrop(msgs, rec) == msgs

\* Progress::push_error: the record is pushed; past MAX_ERRORS the buffer
\* is taken.
PushError(msgs, rec) ==
    IF Len(msgs) + 1 > MAX_ERRORS THEN <<>> ELSE Append(msgs, rec)

\* The batch push_error returns to its caller: the whole buffer once it is
\* longer than MAX_ERRORS, else nothing.
Drained(msgs, rec) ==
    IF Len(msgs) + 1 > MAX_ERRORS THEN Append(msgs, rec) ELSE <<>>

\* update_object_errors: upsert by object id, in the order of the records;
\* an empty message clears.
RECURSIVE UpdateObjectErrors(_, _)
UpdateObjectErrors(errs, records) ==
    IF records = <<>> THEN errs
    ELSE UpdateObjectErrors(
            [errs EXCEPT ![Head(records).object_id] = Head(records).message],
            Tail(records))

\* stream_objects / get_object_count: the Object rows.
ObjectIds == {i \in Ids : rows[i] # None}

\* The Object rows with date_added <= before.
ObjectsBefore(before) == {i \in ObjectIds : date_added[i] <= before}

\* stream_objects(progress.started()): the rows of the statement, fixed
\* when the worker first polls the stream.
Stream(p) ==
    IF run[p].stream = None THEN ObjectsBefore(run[p].started) ELSE Get(run[p].stream)

\* The object a stream over the rows `objects` yields after `taken` others
\* (in id order).
NextObjects(objects, taken) ==
    {i \in objects : Cardinality({j \in objects : j < i}) = taken}

\* A check that finds every file in order.
CheckOkAlways(id) == TRUE

\* fs::check of objects/<prefix>/<id> against the row's hash: the file
\* exists and its SHA-256 is the hash.
CheckOk(id) ==
    /\ objectFile[id] # None
    /\ sha256sum(Get(objectFile[id])) = Get(rows[id]).hash

\* A call arrives (on the lowest unused call: calls are interchangeable).
StartCall(p) ==
    /\ run[p].pc = "idle"
    /\ \A q \in Runs : q < p => run[q].pc # "idle"

\* started = Local::now(), then get_object_count(started): the total, or
\* Internal when the query fails.
Counted(t, countOk) ==
    IF countOk
    THEN [IdleRun EXCEPT !.task = t, !.pc = "guard", !.started = now,
                         !.total = Cardinality(ObjectsBefore(now))]
    ELSE [IdleRun EXCEPT !.task = t, !.pc = "done", !.result = "Internal"]

\* ObjectStore::check up to ProgressGuard::new.
Check(p, countOk) ==
    /\ StartCall(p)
    /\ run' = [run EXCEPT ![p] = Counted("check", countOk)]
    /\ UNCHANGED <<archive, tasks, object_errors>>
    /\ UNCHANGED storeVars
    /\ UNCHANGED pushers
    /\ UNCHANGED waiter
    /\ UNCHANGED archVars

\* An archive() that goes on without a location.
LocationAny(configured) == TRUE

\* self.archive.as_deref().ok_or_else(..): Ok exactly when an archive
\* location is configured.
LocationOk(configured) == configured

\* ObjectStore::archive up to ProgressGuard::new: Internal without an
\* archive location.
Archive(p, countOk) ==
    /\ StartCall(p)
    /\ run' = [run EXCEPT ![p] = Counted("archive", LocationOk(archive) /\ countOk)]
    /\ UNCHANGED <<archive, tasks, object_errors>>
    /\ UNCHANGED storeVars
    /\ UNCHANGED pushers
    /\ UNCHANGED waiter
    /\ UNCHANGED archVars

\* ProgressGuard::new: Progress::new and Task::start. check() then spawns
\* the worker and returns the Progress; archive() goes on to its set-up.
NewProgressGuard(p) ==
    /\ run[p].pc = "guard"
    /\ LET t == run[p].task
           res == TaskStart(tasks, t, p)
       IN /\ tasks' = res.slots
          /\ run' = [run EXCEPT ![p] =
                        IF ~res.ok
                        THEN [run[p] EXCEPT !.pc = "done", !.result = "InProgress"]
                        ELSE IF t = "check"
                        THEN [run[p] EXCEPT !.guard = TRUE, !.pc = "stream", !.result = "ok"]
                        ELSE [run[p] EXCEPT !.guard = TRUE, !.pc = "mkdir"]]
    /\ UNCHANGED <<archive, object_errors>>
    /\ UNCHANGED storeVars
    /\ UNCHANGED pushers
    /\ UNCHANGED waiter
    /\ UNCHANGED archVars

\* Notify::notify_waiters: the tasks waiting in notified() are woken; no
\* permit is kept for a task that waits later.
NotifyWaiters(w, p) == [w EXCEPT ![p] = IF @ = "waiting" THEN "notified" ELSE @]

\* Progress::finish, when this step drops the guard of call p:
\* notify_waiters.
AfterFinish(p) ==
    waiter' = IF ~run[p].ended /\ run'[p].ended THEN NotifyWaiters(waiter, p) ELSE waiter

\* A `?` of archive() returns the error: the guard is dropped on the way.
ArchiveFailed(p) ==
    /\ run' = [run EXCEPT ![p] = [Finish(run[p]) EXCEPT !.pc = "done", !.result = "Internal"]]
    /\ tasks' = TaskClear(tasks, run[p].task)

\* archive(): create_dir_all(archive).
ArchiveCreateDir(p, ok) ==
    /\ run[p].pc = "mkdir"
    /\ IF ok THEN run' = [run EXCEPT ![p].pc = "dump"] /\ UNCHANGED tasks
       ELSE ArchiveFailed(p)
    /\ UNCHANGED <<archive, object_errors>>
    /\ UNCHANGED storeVars
    /\ UNCHANGED pushers
    /\ AfterFinish(p)
    /\ UNCHANGED archVars

\* archive(): db_support.dump(&dump).
ArchiveDump(p, ok) ==
    /\ run[p].pc = "dump"
    /\ IF ok THEN run' = [run EXCEPT ![p].pc = "extraneous"] /\ UNCHANGED tasks
       ELSE ArchiveFailed(p)
    /\ UNCHANGED <<archive, object_errors>>
    /\ UNCHANGED storeVars
    /\ UNCHANGED pushers
    /\ AfterFinish(p)
    /\ UNCHANGED archVars

\* The archive tree as it is.
ArchiveTree ==
    [file |-> archiveFile, dir |-> archiveDir, stray |-> archiveStray,
     objects |-> archiveObjects]

\* blocking::remove_extraneous over <archive>/objects: nothing when the
\* directory does not exist; the walk skips directories and calls remove on
\* every file whose name is no UUID or whose UUID has no file in the
\* primary objects tree. blocking::remove unlinks the file and then removes
\* up to ID_SLICES parent directories that it finds empty: the prefix
\* directories of a removed copy, and <archive>/objects itself after a file
\* directly in it when nothing else is left there (<archive> holds the
\* dump by then). strayLast: the walk comes to that file after the copies.
RemoveExtraneous(strayLast) ==
    IF ~archiveObjects THEN ArchiveTree
    ELSE LET gone == {i \in Ids : archiveFile[i] # None /\ objectFile[i] = None}
             dir == [i \in Ids |-> archiveDir[i] /\ i \notin gone]
             left == IF strayLast THEN {i \in Ids : dir[i]}
                     ELSE {i \in Ids : archiveDir[i]}
         IN [file |-> [i \in Ids |-> IF i \in gone THEN None ELSE archiveFile[i]],
             dir |-> dir,
             stray |-> FALSE,
             objects |-> ~(archiveStray /\ left = {})]

\* archive(): filesystem.remove_extraneous(archive), then the worker is
\* spawned and the Progress returned.
ArchiveRemoveExtraneous(p, ok, strayLast) ==
    /\ run[p].pc = "extraneous"
    /\ IF ok
       THEN /\ run' = [run EXCEPT ![p].pc = "stream", ![p].result = "ok"]
            /\ LET tree == RemoveExtraneous(strayLast)
               IN /\ archiveFile' = tree.file
                  /\ archiveDir' = tree.dir
                  /\ archiveStray' = tree.stray
                  /\ archiveObjects' = tree.objects
            /\ UNCHANGED tasks
       ELSE /\ ArchiveFailed(p)
            /\ UNCHANGED archVars
    /\ UNCHANGED <<archive, object_errors>>
    /\ UNCHANGED storeVars
    /\ UNCHANGED pushers
    /\ AfterFinish(p)

\* ------------------------------------------------------- message buffer
\* A mutex anyone can take at any time.
MutexFreeAlways(holder) == TRUE

\* self.inner.messages.lock(): the Mutex is free.
MutexFree(holder) == holder = 0

\* `if messages.len() > MAX_ERRORS { mem::take(..) } else { vec![] }`: what
\* the caller is handed, and what the buffer holds afterwards.
Taken(msgs) == IF Len(msgs) > MAX_ERRORS THEN msgs ELSE <<>>
Left(msgs) == IF Len(msgs) > MAX_ERRORS THEN <<>> ELSE msgs

\* Progress::error up to push_error's lock: errors.fetch_add(1).
CallError(c) ==
    /\ pushers.c[c].pc = "idle"
    /\ pushers.calls < MaxCalls
    /\ run' = [run EXCEPT ![1].errors = @ + 1]
    /\ pushers' = [pushers EXCEPT
                    !.calls = @ + 1,
                    !.c[c] = [pc |-> "lock",
                              rec |-> [object_id |-> 1, message |-> "error"],
                              batch |-> <<>>]]
    /\ UNCHANGED <<archive, tasks, object_errors, waiter, archVars>>
    /\ UNCHANGED storeVars

\* Progress::clear_error up to push_error's lock.
CallClearError(c) ==
    /\ pushers.c[c].pc = "idle"
    /\ pushers.calls < MaxCalls
    /\ pushers.clears < MaxClears
    /\ pushers' = [pushers EXCEPT
                    !.calls = @ + 1, !.clears = @ + 1,
                    !.c[c] = [pc |-> "lock",
                              rec |-> [object_id |-> 2, message |-> ""],
                              batch |-> <<>>]]
    /\ UNCHANGED <<archive, tasks, run, object_errors, waiter, archVars>>
    /\ UNCHANGED storeVars

\* push_error: messages.lock().unwrap().
MutexLock(c) ==
    /\ pushers.c[c].pc = "lock"
    /\ MutexFree(pushers.mutex)
    /\ pushers' = [pushers EXCEPT !.mutex = c, !.c[c].pc = "push"]
    /\ UNCHANGED <<archive, tasks, run, object_errors, waiter, archVars>>
    /\ UNCHANGED storeVars

\* push_error: messages.push(ObjectError { object_id, message }).
Push(c) ==
    /\ pushers.c[c].pc = "push"
    /\ run' = [run EXCEPT ![1].messages = Append(@, pushers.c[c].rec)]
    /\ pushers' = [pushers EXCEPT !.c[c].pc = "len"]
    /\ UNCHANGED <<archive, tasks, object_errors, waiter, archVars>>
    /\ UNCHANGED storeVars

\* push_error returns: the buffer is taken when it is longer than
\* MAX_ERRORS, and the MutexGuard is dropped.
PushReturn(c) ==
    /\ pushers.c[c].pc = "len"
    /\ run' = [run EXCEPT ![1].messages = Left(@)]
    /\ pushers' = [pushers EXCEPT !.mutex = 0, !.c[c].pc = "idle",
                                  !.c[c].batch = Taken(run[1].messages)]
    /\ UNCHANGED <<archive, tasks, object_errors, waiter, archVars>>
    /\ UNCHANGED storeVars

BufferNext ==
    \/ \E c \in Callers : CallError(c)
    \/ \E c \in Callers : CallClearError(c)
    \/ \E c \in Callers : MutexLock(c)
    \/ \E c \in Callers : Push(c)
    \/ \E c \in Callers : PushReturn(c)

\* The Progress of a running check (call 1) whose per-object tasks call
\* error and clear_error.
BufferInit ==
    /\ StoreInit /\ PermInit
    /\ archive = TRUE
    /\ tasks = [t \in Tasks |-> IF t = "check" THEN 1 ELSE 0]
    /\ run = [p \in Runs |->
                IF p = 1
                THEN [IdleRun EXCEPT !.task = "check", !.pc = "stream", !.result = "ok",
                                     !.guard = TRUE, !.total = MaxCalls]
                ELSE IdleRun]
    /\ object_errors = [i \in Ids |-> ""]
    /\ pushers = IdlePushers
    /\ waiter = [p \in Runs |-> "idle"]
    /\ archiveFile = [i \in Ids |-> None]
    /\ archiveDir = [i \in Ids |-> FALSE]
    /\ archiveStray = FALSE
    /\ archiveObjects = FALSE

BufferSpec == BufferInit /\ [][BufferNext]_vars

\* ---------------------------------------------------- object-stream worker
\* for_each_object: stream.next(). An object goes on to the semaphore; the
\* end of the stream (every row was yielded) goes on to the join; an error
\* returns at once, which drops the guard.
StreamNext(p, item) ==
    /\ run[p].pc = "stream"
    /\ item = "object" => NextObjects(Stream(p), run[p].taken) # {}
    /\ item = "end" => NextObjects(Stream(p), run[p].taken) = {}
    /\ IF item = "error"
       THEN /\ run' = [run EXCEPT ![p] = [Finish(run[p]) EXCEPT !.pc = "done"]]
            /\ tasks' = TaskClear(tasks, run[p].task)
       ELSE /\ run' = [run EXCEPT ![p].pc = IF item = "object" THEN "acquire" ELSE "join",
                                  ![p].stream = Some(Stream(p))]
            /\ UNCHANGED tasks
    /\ UNCHANGED <<archive, object_errors>>
    /\ UNCHANGED storeVars
    /\ UNCHANGED pushers
    /\ AfterFinish(p)
    /\ UNCHANGED archVars

\* A semaphore that never runs out of permits.
PermitAlways(running) == TRUE

\* Semaphore::new(num_cpus::get()): a permit is free while fewer than
\* NumCpus are held.
PermitAvailable(running) == running < NumCpus

\* semaphore.acquire_owned(), then the per-object task is spawned with the
\* object the stream yielded.
Acquire(p) ==
    /\ run[p].pc = "acquire"
    /\ PermitAvailable(run[p].running)
    /\ run' = [run EXCEPT ![p].pc = "stream", ![p].taken = run[p].taken + 1,
                          ![p].running = run[p].running + 1,
                          ![p].work = run[p].work \cup NextObjects(Stream(p), run[p].taken)]
    /\ UNCHANGED <<archive, tasks, object_errors>>
    /\ UNCHANGED storeVars
    /\ UNCHANGED pushers
    /\ UNCHANGED waiter
    /\ UNCHANGED archVars

\* check(&destination, hash) of Filesystem::copy: the archive has a copy
\* whose SHA-256 is the row's hash.
DestOk(id) ==
    /\ archiveFile[id] # None
    /\ sha256sum(Get(archiveFile[id])) = Get(rows[id]).hash

\* What Filesystem::copy can answer: Ok at once for a good copy; an error
\* when there is no source file to copy; else Ok, or an error of the
\* filesystem.
CopyResults(id) ==
    IF DestOk(id) THEN {TRUE}
    ELSE IF objectFile[id] = None THEN {FALSE}
    ELSE BOOLEAN

\* A copy that leaves the archive as it is.
CopyNothing(id, ok) == ArchiveTree

\* Filesystem::copy: a good copy is left alone; else create_directories
\* for the destination, then tokio::fs::copy of the source file over it.
Copy(id, ok) ==
    IF DestOk(id) THEN ArchiveTree
    ELSE [file |-> IF ok THEN [archiveFile EXCEPT ![id] = objectFile[id]] ELSE archiveFile,
          dir |-> [archiveDir EXCEPT ![id] = TRUE],
          stray |-> archiveStray,
          objects |-> TRUE]

\* A per-object task: action.run returned (CheckAction: what fs::check
\* finds; SyncAction: what Filesystem::copy answers); clear_error or error
\* (one record pushed), increment, drop(permit); a drained batch is the
\* task's to hand to update_object_errors.
ObjectTask(p, o, ok) ==
    /\ o \in run[p].work
    /\ run[p].task = "check" => ok = CheckOk(o)
    /\ run[p].task = "archive" => ok \in CopyResults(o)
    /\ LET tree == IF run[p].task = "archive" THEN Copy(o, ok) ELSE ArchiveTree
       IN /\ archiveFile' = tree.file
          /\ archiveDir' = tree.dir
          /\ archiveStray' = tree.stray
          /\ archiveObjects' = tree.objects
    /\ LET rec == [object_id |-> o, message |-> IF ok THEN "" ELSE "error"]
           batch == Drained(run[p].messages, rec)
       IN /\ run' = [run EXCEPT ![p].running = run[p].running - 1,
                                ![p].work = run[p].work \ {o},
                                ![p].exiting = run[p].exiting + 1,
                                ![p].completed = run[p].completed + 1,
                                ![p].errors = run[p].errors + (IF ok THEN 0 ELSE 1),
                                ![p].messages = PushError(run[p].messages, rec),
                                ![p].flushed = run[p].flushed + Len(batch)]
          /\ object_errors' = UpdateObjectErrors(object_errors, batch)
    /\ UNCHANGED <<archive, tasks>>
    /\ UNCHANGED storeVars
    /\ UNCHANGED pushers
    /\ UNCHANGED waiter

\* A per-object task ends: drop(rx).
ObjectTaskExit(p) ==
    /\ run[p].exiting > 0
    /\ run' = [run EXCEPT ![p].exiting = run[p].exiting - 1]
    /\ UNCHANGED <<archive, tasks, object_errors>>
    /\ UNCHANGED storeVars
    /\ UNCHANGED pushers
    /\ UNCHANGED waiter
    /\ UNCHANGED archVars

\* drop(rx); tx.closed(): every receiver has been dropped.
Join(p) ==
    /\ run[p].pc = "join"
    /\ run[p].running = 0 /\ run[p].exiting = 0
    /\ run' = [run EXCEPT ![p].pc = "flush"]
    /\ UNCHANGED <<archive, tasks, object_errors>>
    /\ UNCHANGED storeVars
    /\ UNCHANGED pushers
    /\ UNCHANGED waiter
    /\ UNCHANGED archVars

\* progress.messages() is taken and, when not empty, handed to
\* update_object_errors (ok = FALSE: the statement fails, which is logged).
Flush(p, ok) ==
    /\ run[p].pc = "flush"
    /\ ok \/ run[p].messages # <<>>
    /\ run' = [run EXCEPT ![p].pc = "return", ![p].messages = <<>>,
                          ![p].flushed = run[p].flushed + Len(run[p].messages)]
    /\ object_errors' = IF ok THEN UpdateObjectErrors(object_errors, run[p].messages)
                        ELSE object_errors
    /\ UNCHANGED <<archive, tasks>>
    /\ UNCHANGED storeVars
    /\ UNCHANGED pushers
    /\ UNCHANGED waiter
    /\ UNCHANGED archVars

\* for_each_object returns, which drops the guard.
Return(p) ==
    /\ run[p].pc = "return"
    /\ run' = [run EXCEPT ![p] = [Finish(run[p]) EXCEPT !.pc = "done"]]
    /\ tasks' = TaskClear(tasks, run[p].task)
    /\ UNCHANGED <<archive, object_errors>>
    /\ UNCHANGED storeVars
    /\ UNCHANGED pushers
    /\ AfterFinish(p)
    /\ UNCHANGED archVars

TaskNext ==
    \/ \E p \in Runs, countOk \in BOOLEAN : Check(p, countOk)
    \/ \E p \in Runs, countOk \in BOOLEAN : Archive(p, countOk)
    \/ \E p \in Runs : NewProgressGuard(p)
    \/ \E p \in Runs, ok \in BOOLEAN : ArchiveCreateDir(p, ok)
    \/ \E p \in Runs, ok \in BOOLEAN : ArchiveDump(p, ok)
    \/ \E p \in Runs, ok \in BOOLEAN, strayLast \in BOOLEAN :
            ArchiveRemoveExtraneous(p, ok, strayLast)
    \/ \E p \in Runs, item \in {"object", "end", "error"} : StreamNext(p, item)
    \/ \E p \in Runs : Acquire(p)
    \/ \E p \in Runs, o \in Ids, ok \in BOOLEAN : ObjectTask(p, o, ok)
    \/ \E p \in Runs : ObjectTaskExit(p)
    \/ \E p \in Runs : Join(p)
    \/ \E p \in Runs, ok \in BOOLEAN : Flush(p, ok)
    \/ \E p \in Runs : Return(p)

TaskSpec == InitAny /\ [][TaskNext]_vars

\* The tokio runtime polls every ready task; the calls the set-up and the
\* worker await (the filesystem, the dump tool, the database, action.run)
\* return.
TaskFairness ==
    \A p \in Runs :
        /\ WF_vars(NewProgressGuard(p))
        /\ WF_vars(\E ok \in BOOLEAN : ArchiveCreateDir(p, ok))
        /\ WF_vars(\E ok \in BOOLEAN : ArchiveDump(p, ok))
        /\ WF_vars(\E ok \in BOOLEAN, strayLast \in BOOLEAN :
                        ArchiveRemoveExtraneous(p, ok, strayLast))
        /\ WF_vars(\E item \in {"object", "end", "error"} : StreamNext(p, item))
        /\ WF_vars(Acquire(p))
        /\ WF_vars(\E o \in Ids, ok \in BOOLEAN : ObjectTask(p, o, ok))
        /\ WF_vars(ObjectTaskExit(p))
        /\ WF_vars(Join(p))
        /\ WF_vars(\E ok \in BOOLEAN : Flush(p, ok))
        /\ WF_vars(Return(p))

TaskFairSpec == InitAny /\ [][TaskNext]_vars /\ TaskFairness

\* Progress::finished on the Progress of call p (the handle check() or
\* archive() returned, or a snapshot of Task::progress()): the task waits
\* in notify.notified().
Wait(p) ==
    /\ waiter[p] = "idle"
    /\ run[p].guard \/ run[p].ended
    /\ waiter' = [waiter EXCEPT ![p] = "waiting"]
    /\ UNCHANGED <<archive, tasks, run, object_errors, pushers, archVars>>
    /\ UNCHANGED storeVars

\* Progress::finished returns completed() == total() once notified.
WaitReturn(p) ==
    /\ waiter[p] = "notified"
    /\ waiter' = [waiter EXCEPT ![p] = "returned"]
    /\ UNCHANGED <<archive, tasks, run, object_errors, pushers, archVars>>
    /\ UNCHANGED storeVars

WaitNext ==
    \/ TaskNext
    \/ \E p \in Runs : Wait(p)
    \/ \E p \in Runs : WaitReturn(p)

\* A store with object 1 committed in bucket b1.
WaitInit == StoredInit /\ assoc = {<<"b1", 1>>}

\* A task that was notified is scheduled and returns; nobody has to call
\* finished.
WaitFairSpec ==
    /\ WaitInit /\ [][WaitNext]_vars
    /\ TaskFairness
    /\ \A p \in Runs : WF_vars(WaitReturn(p))

\* ------------------------------------------- runs beside a changing store
\* The clock moves on to its next reading.
Tick ==
    /\ now < MaxTime
    /\ now' = now + 1
    /\ UNCHANGED <<partFile, objectFile, locked_parts, buckets, rows, assoc, req, accepted,
                   diskVars, date_added>>
    /\ UNCHANGED taskVars

\* Object 1 is stored and in no bucket; a commit_part of object 2 has moved
\* and hashed its file and is about to call add_object; the server accepts
\* one more request. No archive location is configured: the runs are check
\* runs.
ClockInit ==
    /\ TasksInit
    /\ archive = FALSE
    /\ partFile = [i \in Ids |-> None]
    /\ objectFile = [i \in Ids |-> Some(Committed(i))]
    /\ locked_parts = {}
    /\ buckets = Buckets
    /\ rows = [i \in Ids |->
                IF i = 1
                THEN Some([hash |-> sha256sum(Committed(1)), size |-> Len(Committed(1))])
                ELSE None]
    /\ assoc = {}
    /\ req = [r \in Reqs |->
                IF r = 1
                THEN [IdleReq EXCEPT !.op = "commit_part", !.pc = "add", !.id = 2,
                                     !.size = Len(Committed(2)),
                                     !.hash = sha256sum(Committed(2))]
                ELSE IdleReq]
    /\ accepted = MaxRequests - 1
    /\ umask = DaemonUmask
    /\ partMode = [i \in Ids |-> None]
    /\ objectMode = [i \in Ids |-> Some(CreateMode(umask))]
    /\ objectDir = [i \in Ids |-> TRUE]
    /\ objectTop = objectDir
    /\ objectsRoot = TRUE
    /\ layout = "apart"
    /\ now = 0
    /\ date_added = [i \in Ids |-> 0]
    /\ NotServing

ClockNext ==
    \/ \E p \in Runs, countOk \in BOOLEAN : Check(p, countOk)
    \/ \E p \in Runs : NewProgressGuard(p)
    \/ \E p \in Runs, item \in {"object", "end", "error"} : StreamNext(p, item)
    \/ \E p \in Runs : Acquire(p)
    \/ \E p \in Runs, o \in Ids, ok \in BOOLEAN : ObjectTask(p, o, ok)
    \/ \E p \in Runs : ObjectTaskExit(p)
    \/ \E p \in Runs : Join(p)
    \/ \E p \in Runs, ok \in BOOLEAN : Flush(p, ok)
    \/ \E p \in Runs : Return(p)
    \/ Tick
    \/ \E r \in Reqs, b \in Buckets, dbOk \in BOOLEAN : CommitAddObject(r, b, dbOk)
    \/ \E r \in Reqs : PruneBegin(r)
    \/ \E r \in Reqs, id \in Ids, ok \in BOOLEAN : PruneUnlink(r, id, ok)
    \/ \E r \in Reqs, ok \in BOOLEAN : PruneCommit(r, ok)

ClockSpec == ClockInit /\ [][ClockNext]_vars

\* ------------------------------------------------- the listening endpoint
\* A drop that leaves the socket file where it is.
RemoveFileNothing(file) == file

\* UnixDomainSocket::remove_file: std::fs::remove_file(path); an error is
\* logged. The path is free afterwards.
RemoveFile(file) == "none"

\* set_permissions: chown (the owner's and the group's name are looked up,
\* then fs::chown), then chmod (only with a mode). The steps that can fail
\* on this endpoint.
PermissionSteps(socket) ==
    {"ok", "chown"}
        \cup (IF socket.owner = "name" THEN {"owner"} ELSE {})
        \cup (IF socket.group = "name" THEN {"group"} ELSE {})
        \cup (IF socket.mode THEN {"chmod"} ELSE {})

\* The socket file after a set_permissions that went through.
SetPermissions(socket) ==
    [owner |-> IF socket.owner = "none" THEN "process" ELSE "configured",
     group |-> IF socket.group = "none" THEN "process" ELSE "configured",
     mode |-> IF socket.mode THEN "configured" ELSE "created"]

\* serve_unix up to listen(): UnixListener::bind. net::UnixListener::bind
\* fails when something is at the path (or for another reason: bindOk =
\* FALSE) and serve returns the error. Otherwise the socket file is
\* created and Self constructed; a set_permissions that fails at step
\* `perm` returns the error, which drops Self.
Bind(bindOk, perm) ==
    /\ listener = "none"
    /\ perm \in PermissionSteps(uds)
    /\ IF sockFile # "none" \/ ~bindOk
       THEN /\ listener' = "unbound"
            /\ UNCHANGED <<sockFile, sockMeta>>
       ELSE IF perm # "ok"
       THEN /\ listener' = "dropped"
            /\ sockFile' = RemoveFile("socket")
            /\ sockMeta' = CreatedMeta
       ELSE /\ listener' = "accept"
            /\ sockFile' = "socket"
            /\ sockMeta' = SetPermissions(uds)
    /\ UNCHANGED <<uds, signal, backlog, conn>>
    /\ UNCHANGED <<partFile, objectFile, locked_parts, buckets, rows, assoc, req, accepted,
                   diskVars, clockVars>>
    /\ UNCHANGED jobVars

\* The task listen() spawned for the signal: shutdown_signal() returns on
\* SIGINT or SIGTERM and the task drops signal_rx, the only receiver, which
\* closes the channel.
Signal ==
    /\ listener = "accept"
    /\ ~signal
    /\ signal' = TRUE
    /\ UNCHANGED <<uds, sockFile, sockMeta, listener, backlog, conn>>
    /\ UNCHANGED <<partFile, objectFile, locked_parts, buckets, rows, assoc, req, accepted,
                   diskVars, clockVars>>
    /\ UNCHANGED jobVars

\* A client connects to the socket.
Connect ==
    /\ sockFile = "socket" /\ listener = "accept"
    /\ backlog + Cardinality({c \in Conns : conn[c] # "none"}) < MaxConns
    /\ backlog' = backlog + 1
    /\ UNCHANGED <<uds, sockFile, sockMeta, listener, signal, conn>>
    /\ UNCHANGED <<partFile, objectFile, locked_parts, buckets, rows, assoc, req, accepted,
                   diskVars, clockVars>>
    /\ UNCHANGED jobVars

\* The select! of listen()'s loop takes the accept branch: the branch is
\* ready with a connection, and select! polls its ready branches in no
\* fixed order. The connection gets a task that holds a clone of tasks_rx.
\* (An accept that fails is logged and the loop goes round: nothing changes.)
ListenAccept(c) ==
    /\ listener = "accept"
    /\ backlog > 0
    /\ conn[c] = "none" /\ \A d \in Conns : d < c => conn[d] # "none"
    /\ backlog' = backlog - 1
    /\ conn' = [conn EXCEPT ![c] = "open"]
    /\ UNCHANGED <<uds, sockFile, sockMeta, listener, signal>>
    /\ UNCHANGED <<partFile, objectFile, locked_parts, buckets, rows, assoc, req, accepted,
                   diskVars, clockVars>>
    /\ UNCHANGED jobVars

\* The select! takes the signal_tx.closed() branch: break, drop(tasks_rx),
\* drop(listener), which removes the socket file; listen() goes on to
\* tasks_tx.closed().await.
Break ==
    /\ listener = "accept"
    /\ signal
    /\ listener' = "drain"
    /\ sockFile' = RemoveFile(sockFile)
    /\ sockMeta' = CreatedMeta
    /\ UNCHANGED <<uds, signal, backlog, conn>>
    /\ UNCHANGED <<partFile, objectFile, locked_parts, buckets, rows, assoc, req, accepted,
                   diskVars, clockVars>>
    /\ UNCHANGED jobVars

\* A connection task's select! takes the signal_closed branch (fused: once):
\* graceful_shutdown on the connection.
GracefulShutdown(c) ==
    /\ conn[c] = "open"
    /\ signal
    /\ conn' = [conn EXCEPT ![c] = "shutdown"]
    /\ UNCHANGED <<uds, sockFile, sockMeta, listener, signal, backlog>>
    /\ UNCHANGED <<partFile, objectFile, locked_parts, buckets, rows, assoc, req, accepted,
                   diskVars, clockVars>>
    /\ UNCHANGED jobVars

\* The connection future of a task completes (the peer closed it, serving it
\* failed, or its graceful shutdown is through): the task breaks and drops
\* its tasks_rx.
ConnectionClosed(c) ==
    /\ conn[c] \in {"open", "shutdown"}
    /\ conn' = [conn EXCEPT ![c] = "closed"]
    /\ UNCHANGED <<uds, sockFile, sockMeta, listener, signal, backlog>>
    /\ UNCHANGED <<partFile, objectFile, locked_parts, buckets, rows, assoc, req, accepted,
                   diskVars, clockVars>>
    /\ UNCHANGED jobVars

\* The receivers of tasks_tx that are alive: one per connection task that
\* has not ended.
Receivers == {c \in Conns : conn[c] \in {"open", "shutdown"}}

\* A closed() that does not wait for the receivers.
ClosedAlways(receivers) == TRUE

\* watch::Sender::closed: every receiver was dropped.
Closed(receivers) == receivers = {}

\* tasks_tx.closed().await returns, and listen() with it.
ListenReturn ==
    /\ listener = "drain"
    /\ Closed(Receivers)
    /\ listener' = "returned"
    /\ UNCHANGED <<uds, sockFile, sockMeta, signal, backlog, conn>>
    /\ UNCHANGED <<partFile, objectFile, locked_parts, buckets, rows, assoc, req, accepted,
                   diskVars, clockVars>>
    /\ UNCHANGED jobVars

\* The endpoints a configuration can name: with or without a mode, the
\* owner and the group absent, a name, or a numeric id.
Sockets == [mode : BOOLEAN, owner : {"none", "name", "id"}, group : {"none", "name", "id"}]

\* The server as constructed, before serve(): the path is free or taken by
\* a file of somebody else.
ServeInit ==
    /\ StoreInit /\ TasksInit /\ archive = TRUE /\ DiskInit
    /\ uds \in Sockets
    /\ sockFile \in {"none", "other"}
    /\ sockMeta = CreatedMeta
    /\ listener = "none"
    /\ signal = FALSE
    /\ backlog = 0
    /\ conn = [c \in Conns |-> "none"]

ServeNext ==
    \/ \E bindOk \in BOOLEAN, perm \in {"ok", "owner", "group", "chown", "chmod"} :
            Bind(bindOk, perm)
    \/ Signal
    \/ Connect
    \/ \E c \in Conns : ListenAccept(c)
    \/ Break
    \/ \E c \in Conns : GracefulShutdown(c)
    \/ \E c \in Conns : ConnectionClosed(c)
    \/ ListenReturn

ServeSpec == ServeInit /\ [][ServeNext]_vars

\* What may be at <archive>/objects/<prefix>/<i> when a run starts: no
\* copy, the copy of an earlier run, or a damaged copy.
ArchiveStates(i) == {None, Some(Committed(i)), Some(<<>>)}

\* The store and an archive that earlier runs have filled: objects that
\* were archived and pruned since, copies that were damaged, a file in
\* <archive>/objects that is no object, primary files tampered with.
ArchiveInit ==
    /\ RunsInit
    /\ archive = TRUE
    /\ partFile = [i \in Ids |-> None]
    /\ locked_parts = {}
    /\ buckets = Buckets
    /\ req = [r \in Reqs |-> IdleReq]
    /\ accepted = 0
    /\ \E present \in SUBSET Ids :
        /\ rows = [i \in Ids |->
                    IF i \in present
                    THEN Some([hash |-> sha256sum(Committed(i)), size |-> Len(Committed(i))])
                    ELSE None]
        /\ assoc = {<<"b1", i>> : i \in present}
        /\ objectFile \in [Ids -> UNION {FileStates(i) : i \in Ids}]
        /\ \A i \in Ids :
            objectFile[i] \in (IF i \in present THEN FileStates(i) \ {Some(<<>>)} ELSE {None})
    /\ umask = DaemonUmask
    /\ partMode = [i \in Ids |-> None]
    /\ objectMode = [i \in Ids |->
                        IF objectFile[i] # None THEN Some(CreateMode(umask)) ELSE None]
    /\ objectDir = [i \in Ids |-> rows[i] # None]
    /\ objectTop = objectDir
    /\ objectsRoot = (\E i \in Ids : objectDir[i])
    /\ layout = "apart"
    /\ now = 0
    /\ date_added = [i \in Ids |-> 0]
    /\ NotServing
    /\ archiveFile \in [Ids -> UNION {ArchiveStates(i) : i \in Ids}]
    /\ \A i \in Ids : archiveFile[i] \in ArchiveStates(i)
    /\ archiveDir = [i \in Ids |-> archiveFile[i] # None]
    /\ archiveStray \in BOOLEAN
    /\ archiveObjects = (archiveStray \/ \E i \in Ids : archiveFile[i] # None)

ArchiveSpec == ArchiveInit /\ [][TaskNext]_vars

\* ------------------------------------------------------ claims: the tasks
\* The runs of task t whose ProgressGuard is alive.
Active(t) == {p \in Runs : run[p].task = t /\ run[p].guard}

\* C4: at most one run of check and one of archive is in progress, and it
\* is the one installed in the slot; a ProgressGuard::new on an occupied
\* slot answers InProgress and changes neither the slots nor any other
\* run's Progress; on an empty slot it installs its Progress, whatever the
\* other slot holds, and never touches the other slot.
C4_OneRunPerTask ==
    /\ [](\A t \in Tasks :
            /\ Cardinality(Active(t)) <= 1
            /\ Active(t) = IF tasks[t] = 0 THEN {} ELSE {tasks[t]})
    /\ [][\A p \in Runs :
            (run[p].pc = "guard" /\ run'[p].pc # "guard")
            => LET t == run[p].task
               IN /\ \A u \in Tasks \ {t} : tasks'[u] = tasks[u]
                  /\ \A q \in Runs \ {p} : run'[q] = run[q]
                  /\ IF tasks[t] # 0
                     THEN /\ run'[p].result = "InProgress"
                          /\ ~run'[p].guard
                          /\ tasks' = tasks
                     ELSE /\ run'[p].guard
                          /\ tasks'[t] = p]_vars

\* C4 witness: a run is installed and in progress, and a start of the same
\* task has been answered InProgress.
C4_Witness ==
    \E p, q \in Runs :
        /\ p # q
        /\ run[p].guard /\ tasks[run[p].task] = p
        /\ run[q].task = run[p].task
        /\ run[q].pc = "done" /\ run[q].result = "InProgress"

\* C9: at the moment a run's Progress is marked finished (and its slot
\* cleared), every per-object task spawned in the run has completed, and
\* completed equals the number of objects taken from the stream.
C9_FinishAfterJoin ==
    [][\A p \in Runs :
        (~run[p].ended /\ run'[p].ended)
        => /\ run'[p].running = 0 /\ run'[p].exiting = 0
           /\ run'[p].completed = run'[p].taken]_vars

\* C11: once a run has ended and its per-object tasks are gone, every
\* record pushed (one per processed object) has been handed to
\* update_object_errors exactly once: the records handed are as many as the
\* objects processed and the buffer is empty.
C11_EveryRecordFlushedOnce ==
    \A p \in Runs :
        (run[p].ended /\ run[p].running = 0 /\ run[p].exiting = 0)
        => (run[p].flushed = run[p].completed /\ run[p].messages = <<>>)

\* An object whose file is not what was committed: changed, truncated or
\* deleted.
Tampered(i) == rows[i] # None /\ ~CheckOk(i)

\* C12: at the moment a check run finishes, the ObjectError stored for every
\* tampered object is non-empty, whatever else is running.
C12_TamperedObjectsReported ==
    [][\A p \in Runs :
        (run[p].task = "check" /\ ~run[p].ended /\ run'[p].ended)
        => \A i \in Ids : Tampered(i) => object_errors'[i] # ""]_vars

\* The objects whose file is missing or is not the bytes committed.
Damaged == {i \in ObjectIds : objectFile[i] # Some(Committed(i))}

C14_AtMostPActions ==
    \A p \in Runs :
        /\ run[p].running <= NumCpus
        /\ Cardinality(run[p].work) = run[p].running
        /\ run[p].taken - run[p].running = run[p].completed

\* C14 witness: every permit of a run is held by a task whose action has
\* not finished while the worker waits with one more object for a permit.
C14_Witness ==
    \E p \in Runs :
        /\ run[p].pc = "acquire" /\ run[p].running = NumCpus
        /\ NextObjects(Stream(p), run[p].taken) # {}

\* C10: every run whose ProgressGuard was created eventually ends; whenever
\* a guard goes, on any path, ended is set and the slot emptied, so no slot
\* ever holds an ended run; and a ProgressGuard::new made when no other run
\* of the task is in progress succeeds.
C10_RunsEndAndRelease ==
    /\ \A p \in Runs : (run[p].guard ~> run[p].ended)
    /\ [](\A p \in Runs : run[p].ended => (~run[p].guard /\ tasks[run[p].task] # p))
    /\ [][\A p \in Runs :
            (run[p].guard /\ ~run'[p].guard)
            => (run'[p].ended /\ tasks'[run[p].task] = 0)]_vars
    /\ [][\A p \in Runs :
            (run[p].pc = "guard" /\ run'[p].pc # "guard" /\ Active(run[p].task) = {})
            => run'[p].guard]_vars

\* C10 witness: a run has ended on a stream error while one of its
\* per-object tasks was still running, and a later run of the same task
\* holds its guard.
C10_Witness ==
    \E p, q \in Runs :
        /\ p # q
        /\ run[p].task = run[q].task
        /\ run[p].ended /\ run[p].pc = "done" /\ run[p].running > 0
        /\ run[q].guard /\ tasks[run[q].task] = q

\* ------------------------------------------------------ claims: the store
\* The requests that hold an open Part for id: the PartLock token, the
\* FileLock and the open file.
OpenParts(id) == {r \in Reqs : req[r].tok /\ req[r].fd # "none" /\ req[r].id = id}

\* No handler is between two of its steps.
Quiescent == \A r \in Reqs : req[r].pc \in {"idle", "done"}

\* The requests that hold the PartLock token of id: inside Part::open, or
\* with the Part open.
Holders(id) == {r \in Reqs : req[r].tok /\ req[r].id = id}

\* C1: of two overlapping attempts to open a Part with the same id one
\* gets the Part and the other fails with WriteLock: no two open Parts ever
\* share an id; a lock attempt made while another request holds the token
\* of that id ends with WriteLock, takes no token and leaves the holder's
\* entry in place; a lock attempt on an id nobody has locked is granted.
C1_OneOpenPartPerId ==
    /\ [](\A id \in Ids : Cardinality(OpenParts(id)) <= 1)
    /\ [][\A r \in Reqs :
            (req[r].pc = "lock" /\ req'[r].pc # "lock" /\ Holders(req[r].id) # {})
            => (req'[r].pc = "done" /\ req'[r].result = "WriteLock" /\ ~req'[r].tok
                /\ locked_parts' = locked_parts)]_vars
    /\ [][\A r \in Reqs :
            (req[r].pc = "lock" /\ req'[r].pc # "lock" /\ req[r].id \notin locked_parts)
            => (req'[r].pc = "open" /\ req'[r].tok)]_vars

\* C1 witness: one request holds the open Part while an append to the same
\* id has been answered WriteLock.
C1_Witness ==
    \E r, q \in Reqs :
        /\ r # q
        /\ r \in OpenParts(req[q].id)
        /\ req[q].op = "append_part" /\ req[q].pc = "done"
        /\ req[q].result = "WriteLock"

\* C2: once commit_part has returned an Object with id X (the row exists),
\* the bytes of objects/<prefix>/X never change while the file exists.
C2_CommittedBytesNeverChange ==
    [][\A i \in Ids :
        (rows[i] # None /\ objectFile[i] # None /\ objectFile'[i] # None)
        => objectFile'[i] = objectFile[i]]_vars

\* C3: Filesystem.commit renames parts/<id> only when no other request
\* holds an open Part for that id.
C3_CommitWaitsForOpenPart ==
    [][\A r \in Reqs :
        (req[r].pc = "commit" /\ req'[r].pc = "hash")
        => OpenParts(req[r].id) \ {r} = {}]_vars

\* C5: when no operation is in progress, every Object row has its file at
\* objects/<prefix>/<id>, and the file's SHA-256 is the row's hash.
C5_EveryRowHasItsFile ==
    Quiescent =>
        \A i \in Ids :
            rows[i] # None =>
                /\ objectFile[i] # None
                /\ sha256sum(Get(objectFile[i])) = Get(rows[i]).hash

\* C6: when no operation is in progress, every file under objects/ has an
\* Object row with its id.
C6_EveryFileHasItsRow ==
    Quiescent => \A i \in Ids : objectFile[i] # None => rows[i] # None

\* C7: a prune whose database statements succeed ends with success and with
\* the orphan rows removed, also when an unlink failed.
C7_PruneSurvivesUnlinkError ==
    \A r \in Reqs :
        (req[r].op = "prune" /\ req[r].pc = "done" /\ req[r].result # "Sql")
        => (req[r].result = "ok" /\ \A i \in req[r].objects : rows[i] = None)

\* C8: a successful GET /object/:bucket/:id/data carries the complete
\* committed content: the bytes whose SHA-256 and length the Object row
\* states.
C8_DataIsCommittedContent ==
    \A r \in Reqs :
        (req[r].op = "get_object_data" /\ req[r].pc = "done" /\ req[r].result = "ok")
        => (sha256sum(req[r].data) = req[r].hash /\ Len(req[r].data) = req[r].size)

\* C15: an upload that succeeds returns the hash of its bytes and the id of
\* the one Object row with that hash: the row already there when an upload
\* of identical bytes came first, whatever bucket that one went into, and
\* the upload's bucket is associated with the row while every earlier
\* association stays; no hash ever has two rows.
C15_IdenticalBytesShareOneObject ==
    /\ [](\A i \in Ids : rows[i] # None => HashOwner(Get(rows[i]).hash) = {i})
    /\ [][\A r \in Reqs :
            (req[r].pc = "add" /\ req'[r].pc = "done" /\ req'[r].result = "ok")
            => /\ req'[r].hash = req[r].hash
               /\ {y \in Ids : rows'[y] # None /\ Get(rows'[y]).hash = req[r].hash}
                    = {req'[r].oid}
               /\ HashOwner(req[r].hash) # {}
                    => (req'[r].oid \in HashOwner(req[r].hash) /\ rows' = rows)
               /\ \E b \in Buckets : assoc' = assoc \cup {<<b, req'[r].oid>>}]_vars

\* C15 witness: two uploads in flight at the same time have both succeeded
\* with the same object id and hash, one of them under another id than its
\* part's, and two distinct buckets are associated with the one row.
C15_Witness ==
    \E r1, r2 \in Reqs :
        /\ r1 # r2
        /\ \A r \in {r1, r2} :
            req[r].op = "add_object" /\ req[r].pc = "done" /\ req[r].result = "ok"
        /\ req[r1].oid = req[r2].oid /\ req[r1].hash = req[r2].hash
        /\ req[r2].id # req[r2].oid
        /\ HashOwner(req[r1].hash) = {req[r1].oid}
        /\ \A b \in Buckets : <<b, req[r1].oid>> \in assoc

\* C16: a prune that answers Ok has removed exactly the rows it returns;
\* none of them was associated with a bucket, and afterwards none of them
\* has a row (every bucket's metadata lookup answers NotFound) or a file
\* under objects/. No row that a bucket references is ever removed.
C16_PruneRemovesExactlyOrphans ==
    /\ [][\A i \in Ids :
            (rows[i] # None /\ rows'[i] = None)
            => \A b \in Buckets : <<b, i>> \notin assoc]_vars
    /\ [][\A r \in Reqs :
            (req[r].op = "prune" /\ req[r].pc = "unlink"
                /\ req'[r].pc = "done" /\ req'[r].result = "ok")
            => /\ req'[r].objects = {i \in Ids : rows[i] # None /\ rows'[i] = None}
               /\ \A i \in req'[r].objects :
                    /\ rows'[i] = None
                    /\ objectFile'[i] = None
                    /\ \A b \in Buckets : <<b, i>> \notin assoc']_vars

\* C17: a step that removes associations or a bucket (remove_object,
\* remove_objects, remove_bucket) changes no file under objects/ or parts/
\* and no Object row, and takes associations away from one bucket only: an
\* object that another bucket is associated with keeps that association and
\* its row, so its metadata is still found through the other bucket.
C17_RemoveOnlyChangesMetadata ==
    [][(buckets' # buckets \/ (assoc' # assoc /\ assoc' \subseteq assoc))
        => /\ objectFile' = objectFile
           /\ partFile' = partFile
           /\ rows' = rows
           /\ assoc' \subseteq assoc
           /\ \E b \in Buckets :
                \A a \in assoc : a[1] # b =>
                    (a \in assoc' /\ (rows[a[2]] # None => rows'[a[2]] # None))]_vars

\* C17 witness: after three requests bucket b1 is gone while the object two
\* uploads answered with is still associated with bucket b2 alone, with its
\* row and its file.
C17_Witness ==
    \E r1, r2 \in Reqs :
        /\ r1 # r2 /\ accepted = MaxRequests /\ "b1" \notin buckets
        /\ \A r \in {r1, r2} :
            req[r].op = "add_object" /\ req[r].pc = "done" /\ req[r].result = "ok"
        /\ req[r1].oid = req[r2].oid
        /\ {a \in assoc : a[2] = req[r1].oid} = {<<"b2", req[r1].oid>>}
        /\ rows[req[r1].oid] # None /\ objectFile[req[r1].oid] # None

\* C18: when commit_part's or add_object's metadata insert has failed after
\* the part was renamed into objects/, so that the file is on disk without
\* a row, a prune that starts afterwards takes that file among the objects
\* it removes.
C18_PruneTakesRowlessFile ==
    [][\A r, q \in Reqs :
        (/\ req[r].op \in {"add_object", "commit_part"}
         /\ req[r].pc = "done" /\ req[r].result = "Sql"
         /\ objectFile[req[r].id] # None /\ rows[req[r].id] = None
         /\ req[q].pc = "idle" /\ req'[q].op = "prune")
        => req[r].id \in req'[q].objects]_vars

\* C19: once a commit_part or add_object of a blob with the hash of the
\* stored object 1 has answered with an Object and no prune is in progress,
\* the Object it returned, as long as a bucket is still associated with it,
\* has its metadata row and its file on disk: whether prune ran before,
\* after or in between.
C19_CommittedObjectSurvivesPrune ==
    \A r \in Reqs :
        (/\ req[r].op \in {"add_object", "commit_part"}
         /\ req[r].pc = "done" /\ req[r].result = "ok"
         /\ req[r].hash = sha256sum(Committed(1))
         /\ \E b \in Buckets : <<b, req[r].oid>> \in assoc
         /\ \A q \in Reqs : ~(req[q].op = "prune" /\ req[q].pc = "unlink"))
        => (rows[req[r].oid] # None /\ objectFile[req[r].oid] # None)

\* C20: when Part::open fails after it took the in-process lock (creating
\* the directories or opening the file fails, or the OS lock answers
\* WriteLock), the id is out of the PartLockSet when the handler returns;
\* every id in the set is held by a handler that is still running, so no
\* entry outlives its holder to reject a later open.
C20_FailedOpenReleasesLock ==
    /\ [][\A r \in Reqs :
            (req[r].pc = "open" /\ req'[r].pc = "done")
            => (req[r].tok /\ ~req'[r].tok /\ req[r].id \notin locked_parts')]_vars
    /\ [](\A id \in locked_parts :
            \E r \in Reqs :
                /\ req[r].id = id /\ (req[r].tok \/ req[r].lock)
                /\ req[r].pc \notin {"idle", "done"})

\* C20 witness: the only request so far took the in-process lock and was
\* answered WriteLock by the OS lock on the part file it created; the set
\* is empty again.
C20_Witness ==
    \E r \in Reqs :
        /\ accepted = 1
        /\ req[r].pc = "done" /\ req[r].result = "WriteLock"
        /\ partFile[req[r].id] = Some(<<>>)
        /\ locked_parts = {}

IsPrefix(x, y) == Len(x) <= Len(y) /\ SubSeq(y, 1, Len(x)) = x

\* C22: no step truncates or rewrites a part file: as long as parts/<id>
\* exists its content only grows at the end; Part::open leaves the content
\* of an existing part file as it is, and each stream_to_file chunk is
\* appended at the end of the file the Part has open, so that the content
\* is the chunks in call order over all opens.
C22_PartFileOnlyAppends ==
    /\ [][\A id \in Ids :
            (partFile[id] # None /\ partFile'[id] # None)
            => IsPrefix(Get(partFile[id]), Get(partFile'[id]))]_vars
    /\ [][\A r \in Reqs :
            (req[r].pc = "open" /\ req'[r].pc = "write" /\ partFile[req[r].id] # None)
            => partFile'[req[r].id] = partFile[req[r].id]]_vars
    /\ [][\A r \in Reqs :
            (req[r].pc = "write" /\ req'[r].written = req[r].written + 1
                /\ req[r].fd = "part")
            => \E b \in Bytes :
                partFile'[req[r].id] = Some(Append(Get(partFile[req[r].id]), b))]_vars

\* C22 witness: a part file holds two different chunks written through two
\* successive opens, the second request having just appended its own.
C22_Witness ==
    \E r \in Reqs :
        /\ req[r].op = "append_part" /\ req[r].pc = "write" /\ req[r].written = 1
        /\ req[r].fd = "part"
        /\ partFile[req[r].id] = Some(<<"a", "b">>)

\* C23: when POST /object/:id answers, the count it returns (what
\* stream_to_file returned: the bytes this request wrote) is the size of
\* the part file: the bytes already in the part plus the bytes appended.
C23_AppendReturnsNewTotal ==
    [][\A r \in Reqs :
        (/\ req[r].op = "append_part" /\ req[r].pc = "write" /\ req[r].fd = "part"
         /\ req'[r].pc = "done" /\ req'[r].result = "ok")
        => req'[r].written = Len(Get(partFile'[req[r].id]))]_vars

\* C24: when Filesystem::commit has renamed a part into objects/, the
\* object file has mode OBJECT_PERMISSIONS (0o640).
C24_CommittedFileHasMode640 ==
    [][\A r \in Reqs :
        (req[r].pc = "commit" /\ req'[r].pc = "hash")
        => objectMode'[req[r].id] = Some(OBJECT_PERMISSIONS)]_vars

\* C27: remove_objects treats what is missing as success: removing an id
\* whose object file or whose prefix directories do not exist does not
\* fail the batch; the id leaves the batch and the remaining ids are still
\* to be processed.
C27_MissingFileIsSuccess ==
    [][\A r \in Reqs :
        (/\ req[r].op = "prune" /\ req[r].pc = "unlink" /\ req'[r].pc = "done"
         /\ req'[r].result = "Internal")
        => \E id \in req[r].todo : objectFile[id] # None /\ objectDir[id]]_vars

\* C26: remove_extraneous removes only files: a step of it leaves every
\* prefix directory under <archive>/objects, and <archive>/objects
\* itself, in place.
C26_RemoveExtraneousKeepsDirectories ==
    [][\A p \in Runs :
        (run[p].pc = "extraneous" /\ run'[p].pc = "stream")
        => /\ \A i \in Ids : archiveDir[i] => archiveDir'[i]
           /\ archiveObjects => archiveObjects']_vars

\* The archive holds object i: a file at <archive>/objects/<prefix>/<i>
\* whose bytes are those of the primary file or those the row's hash was
\* taken of.
Archived(i) ==
    /\ archiveFile[i] # None
    /\ \/ archiveFile[i] = objectFile[i]
       \/ sha256sum(Get(archiveFile[i])) = Get(rows[i]).hash

\* <archive>/objects holds no file that is not named as a file of the
\* primary objects tree.
NoExtraneous ==
    /\ ~archiveStray
    /\ \A i \in Ids : archiveFile[i] # None => objectFile[i] # None

\* C25 as stated: whenever an archive run that archive() started (the call
\* returned its Progress) ends with errors = 0, every object of the
\* metadata store has its copy in the archive and the archive holds no
\* extraneous file.
C25_EndedWithoutErrorsIsComplete ==
    [][\A p \in Runs :
        (run[p].task = "archive" /\ run[p].result = "ok"
         /\ ~run[p].ended /\ run'[p].ended /\ run'[p].errors = 0)
        => (\A i \in ObjectIds : Archived(i))' /\ NoExtraneous']_vars

\* An archive() call that was rejected: no location configured, or
\* another archive run holds the slot.
Rejected(p) ==
    /\ run[p].task = "archive"
    /\ \/ run[p].result = "InProgress"
       \/ ~archive /\ run[p].pc # "idle"

\* C29: the step that rejects an archive() call, for want of a location
\* or because another archive run is in progress, ends the call at once
\* and changes neither the archive tree, nor the Task slots, nor any
\* other call's Progress; a rejected call never held a guard, took no
\* object from the stream and ran no per-object copy; the dump,
\* remove_extraneous and the copies are the work of the call whose guard
\* is in the archive slot.
C29_RejectedArchiveDoesNothing ==
    /\ [][\A p \in Runs :
            (~Rejected(p) /\ Rejected(p)')
            => /\ run'[p].pc = "done"
               /\ UNCHANGED <<archVars, tasks, object_errors>>
               /\ \A q \in Runs \ {p} : run'[q] = run[q]]_vars
    /\ [](\A p \in Runs :
            Rejected(p)
            => /\ run[p].pc = "done"
               /\ run[p].result \in {"InProgress", "Internal"}
               /\ ~run[p].guard /\ ~run[p].ended
               /\ run[p].taken = 0 /\ run[p].completed = 0
               /\ run[p].work = {}
               /\ tasks.archive # p)
    /\ [](\A p \in Runs :
            (run[p].task = "archive"
             /\ (run[p].pc \in {"mkdir", "dump", "extraneous"} \/ run[p].work # {}))
            => ~Rejected(p) /\ archive)

\* C29 witness: while one archive run is copying (one object done, its
\* copy in the archive), a second archive() call has been answered
\* InProgress; the slot is still the first run's.
C29_Witness ==
    \E p \in Runs, q \in Runs :
        /\ p # q
        /\ run[p].task = "archive" /\ run[p].guard /\ ~run[p].ended
        /\ run[p].completed = 1 /\ tasks.archive = p
        /\ \E i \in Ids : archiveFile[i] # None
        /\ run[q].task = "archive" /\ run[q].result = "InProgress"
        /\ run[q].pc = "done"

\* C30: a request that is refused with WriteLock, because the Part it
\* opens is being written, is answered with a 4xx client-error status.
C30_WriteLockIsClientError ==
    \A r \in Reqs :
        (req[r].pc = "done" /\ req[r].result = "WriteLock")
        => req[r].status \in 400..499

\* C28: a per-object action that fails neither stops nor fails the worker.
\* The step of the failing task counts the failure in errors and pushes a
\* record with a message for its object, and leaves the worker where it
\* was, the run not ended and the slot taken; a call whose worker was
\* spawned keeps its Ok result; a worker that comes to the end of the
\* stream has taken every object, and returns with every object counted
\* in completed, whatever the number of errors; a flush whose statement
\* fails changes nothing but the buffer and the worker goes on to return.
C28_FailedActionDoesNotStopWorker ==
    /\ [][\A p \in Runs :
            run'[p].errors = run[p].errors + 1
            => /\ run'[p].pc = run[p].pc
               /\ run'[p].ended = run[p].ended /\ run'[p].guard = run[p].guard
               /\ run'[p].result = run[p].result
               /\ tasks' = tasks
               /\ run'[p].completed = run[p].completed + 1
               /\ \E o \in run[p].work \ run'[p].work :
                    LET rec == [object_id |-> o, message |-> "error"]
                    IN \/ run'[p].messages = Append(run[p].messages, rec)
                       \/ /\ run'[p].messages = <<>>
                          /\ run'[p].flushed = run[p].flushed + Len(run[p].messages) + 1]_vars
    /\ [](\A p \in Runs :
            /\ run[p].taken > 0 => run[p].result = "ok"
            /\ run[p].pc \in {"join", "flush", "return"}
                => run[p].taken = Cardinality(ObjectIds)
            /\ run[p].pc = "return"
                => run[p].completed = Cardinality(ObjectIds))
    /\ [][\A p \in Runs :
            run[p].pc = "flush" /\ run'[p].pc # "flush"
            => /\ run'[p].pc = "return"
               /\ run'[p] = [run[p] EXCEPT !.pc = "return", !.messages = <<>>,
                                            !.flushed = run[p].flushed + Len(run[p].messages)]
               /\ tasks' = tasks]_vars

\* C28 witness: the action failed for the first object and the worker went
\* on to the second; at the final flush both records are in the buffer,
\* the first with a message, and the run has errors = 1 and completed = 2.
C28_Witness ==
    \E p \in Runs :
        /\ run[p].pc = "flush" /\ ~run[p].ended
        /\ run[p].errors = 1 /\ run[p].completed = 2
        /\ Len(run[p].messages) = 2
        /\ run[p].messages[1].message # ""
        /\ run[p].messages[2].message = ""

\* C31: Filesystem::copy is idempotent. A copy that answers Ok for an
\* object whose destination exists with the expected hash has written
\* nothing; any other copy that answers Ok leaves the destination with
\* the bytes of the source; and a second copy of the same object, run in
\* the state the first one left, answers Ok and changes nothing.
C31_CopyIdempotent ==
    [][\A p \in Runs :
        (run[p].task = "archive" /\ run'[p].completed = run[p].completed + 1
         /\ run'[p].errors = run[p].errors)
        => \E o \in run[p].work \ run'[p].work :
            /\ IF archiveFile[o] # None
                  /\ sha256sum(Get(archiveFile[o])) = Get(rows[o]).hash
               THEN UNCHANGED archVars
               ELSE archiveFile'[o] = objectFile[o] /\ archiveFile'[o] # None
            /\ (TRUE \in CopyResults(o))'
            /\ (Copy(o, TRUE) = ArchiveTree)']_vars

\* C31 witness: a first archive run has ended and a second one has copied
\* both objects again, without errors; object 2, whose primary file is
\* not the bytes committed, is the same in the archive after both.
C31_Witness ==
    \E p \in Runs, q \in Runs :
        /\ p # q
        /\ run[p].task = "archive" /\ run[p].ended
        /\ run[p].completed = 2 /\ run[p].errors = 0
        /\ run[q].task = "archive" /\ run[q].completed = 2 /\ run[q].errors = 0
        /\ objectFile[2] = Some(Append(Committed(2), "a"))
        /\ archiveFile[2] = objectFile[2]
        /\ archiveFile[1] # None

\* C33: remove_objects removes a prefix directory only when it has become
\* empty (no file left in <xx>/<yy>, no directory left in <xx>), and does
\* remove the directory of a file it unlinked once that is empty; it
\* removes <xx> only after <xx>/<yy> (it stops at the first parent that
\* is not empty), never removes objects/, and leaves the file of every
\* object that is not among the paths of the call as it was.
C33_RemoveObjectsKeepsNonEmptyDirs ==
    [][/\ \A j \in Ids :
            (objectDir[j] /\ ~objectDir'[j])
            => \A k \in Ids : SameDir(j, k) => objectFile'[k] = None
       /\ \A j \in Ids :
            (objectTop[j] /\ ~objectTop'[j])
            => /\ \A k \in Ids : SameTop(j, k) => ~objectDir'[k]
               /\ \E k \in Ids : SameTop(j, k) /\ objectDir[k] /\ ~objectDir'[k]
       /\ objectsRoot => objectsRoot'
       /\ \A r \in Reqs :
            (req[r].op = "prune" /\ req[r].pc = "unlink" /\ req'[r] # req[r])
            => /\ \A j \in Ids \ req[r].todo : objectFile'[j] = objectFile[j]
               /\ \A id \in req[r].todo \ req'[r].todo :
                    (\A k \in Ids : SameDir(id, k) => objectFile'[k] = None)
                    => ~objectDir'[id]]_vars

\* C33 witness: objects 1 and 2 lie in different <yy> directories of one
\* <xx>; a prune has removed the file of object 1 and its <yy>, and has
\* stopped at <xx>, which still holds the directory of object 2.
C33_Witness ==
    /\ layout = "xx"
    /\ objectFile[1] = None /\ ~objectDir[1]
    /\ objectFile[2] # None /\ objectDir[2]
    /\ objectTop[1] /\ objectsRoot
    /\ \E r \in Reqs :
        /\ req[r].op = "prune" /\ req[r].pc = "done" /\ req[r].result = "ok"
        /\ 1 \in req[r].objects

\* C34: when a call of error or clear_error returns, the buffer holds at
\* most MAX_ERRORS records: the call that found it longer is handed the
\* whole buffer, MAX_ERRORS + 1 records, and leaves it empty; every other
\* call is handed an empty batch and leaves the buffer as it is. The
\* buffer is never longer than MAX_ERRORS + 1, and no longer than
\* MAX_ERRORS while no caller is inside push_error, whatever the
\* interleaving of the callers.
C34_BufferAtMostMaxErrors ==
    /\ [][\A c \in Callers :
            (pushers.c[c].pc = "len" /\ pushers'.c[c].pc = "idle")
            => LET msgs == run[1].messages
                   front == SubSeq(msgs, 1, Len(msgs) - 1)
                   batch == pushers'.c[c].batch
               IN /\ Len(run'[1].messages) <= MAX_ERRORS
                  /\ IF Len(msgs) > MAX_ERRORS
                     THEN /\ batch = msgs /\ Len(batch) = MAX_ERRORS + 1
                          /\ run'[1].messages = <<>>
                     ELSE batch = <<>> /\ run'[1].messages = msgs
                  /\ msgs # <<>>
                  /\ run'[1].messages = PushError(front, msgs[Len(msgs)])
                  /\ batch = Drained(front, msgs[Len(msgs)])]_vars
    /\ [](Len(run[1].messages) <= MAX_ERRORS + 1)
    /\ []((\A c \in Callers : pushers.c[c].pc \in {"idle", "lock"})
            => Len(run[1].messages) <= MAX_ERRORS)

\* C34 witness: a caller has been handed the 101 records of the buffer,
\* the clear_error record among them, and left it empty, while the other
\* caller is waiting for the mutex.
C34_Witness ==
    \E c \in Callers, d \in Callers :
        /\ c # d
        /\ pushers.c[c].pc = "idle" /\ Len(pushers.c[c].batch) = MAX_ERRORS + 1
        /\ \E k \in 1..Len(pushers.c[c].batch) : pushers.c[c].batch[k].message = ""
        /\ run[1].messages = <<>>
        /\ pushers.c[d].pc = "lock"

\* C35: every caller of finished() on the Progress of a run that has
\* ended eventually returns, a caller that started to wait after the
\* guard was dropped included.
C35_FinishedEventuallyReturns ==
    \A p \in Runs :
        (waiter[p] = "waiting" /\ run[p].ended) ~> (waiter[p] = "returned")

\* C36: in every reachable state of a check or archive run, completed() is
\* at most total(), also while objects are added and removed beside the run.
C36_CompletedAtMostTotal ==
    \A p \in Runs : run[p].completed <= run[p].total

\* The PartLock tokens alive for id: the internal_lock of a handler's Part,
\* and the _lock of a Filesystem::commit.
Tokens(id) ==
    {<<r, "part">> : r \in {q \in Reqs : req[q].id = id /\ req[q].tok}}
        \cup {<<r, "commit">> : r \in {q \in Reqs : req[q].id = id /\ req[q].lock}}

\* C37: an id is in the PartLockSet exactly while one PartLock token for it
\* is alive, and no id has two tokens; a lock(id) on an id in the set (by
\* Part::open, answered WriteLock, or by Filesystem::commit) creates no
\* token and leaves the set as it is; a step that takes an id out of the
\* set drops the token of that id and takes no other id out.
C37_PartLockSetInvariant ==
    /\ [](\A id \in Ids :
            /\ Cardinality(Tokens(id)) <= 1
            /\ id \in locked_parts <=> Tokens(id) # {})
    /\ [][\A r \in Reqs :
            /\ (req[r].pc = "lock" /\ req'[r].pc # "lock" /\ req[r].id \in locked_parts)
               => /\ req'[r].result = "WriteLock" /\ ~req'[r].tok
                  /\ Tokens(req[r].id)' = Tokens(req[r].id)
                  /\ locked_parts' = locked_parts
            /\ (req[r].pc = "commit" /\ req'[r].pc = "hash" /\ req[r].id \in locked_parts)
               => /\ ~req'[r].lock
                  /\ Tokens(req[r].id)' = Tokens(req[r].id)
                  /\ locked_parts' = locked_parts]_vars
    /\ [][\A id \in locked_parts \ locked_parts' :
            /\ Tokens(id) # {} /\ Tokens(id)' = {}
            /\ locked_parts' = locked_parts \ {id}]_vars

\* C37 witness: a request holds the token of an id, which is the only id in
\* the set, a lock on the same id by another request has been answered
\* WriteLock, and earlier a third request was answered and dropped what it
\* held.
C37_Witness ==
    \E r, q \in Reqs :
        /\ r # q
        /\ req[r].tok /\ req[r].pc = "write" /\ locked_parts = {req[r].id}
        /\ req[q].pc = "done" /\ req[q].result = "WriteLock" /\ req[q].id = req[r].id
        /\ accepted = MaxRequests

\* The UnixListener was constructed and has been dropped.
ListenerGone == listener \in {"dropped", "drain", "returned"}

C39_NoAcceptAfterSignal ==
    /\ [][signal => \A c \in Conns : conn[c] = "none" => conn'[c] = "none"]_vars
    /\ [](listener = "returned" => \A c \in Conns : conn[c] \in {"none", "closed"})

\* C39, amended: listen() leaves its accept loop only after the shutdown
\* signal; once it has left the loop it accepts no connection (a connection
\* that is ready while the loop still runs may be accepted after the
\* signal); it returns only when every connection task it accepted, before
\* or after the signal, has finished.
C39_ReturnsAfterAcceptedTasks ==
    /\ [][(listener = "accept" /\ listener' # "accept") => signal]_vars
    /\ [][listener # "accept"
            => \A c \in Conns : conn[c] = "none" => conn'[c] = "none"]_vars
    /\ [](listener = "returned" => \A c \in Conns : conn[c] \in {"none", "closed"})
    /\ [][(listener = "drain" /\ listener' = "returned") => Receivers = {}]_vars

\* C39 witness: listen() has left its loop after the signal and waits for a
\* connection task that is shutting its connection down, while another
\* task has finished.
C39_Witness ==
    /\ listener = "drain" /\ signal
    /\ \E c, d \in Conns : conn[c] = "shutdown" /\ conn[d] = "closed"

====
